---- MODULE Spec2Model ----
(***************************************************************************)
(* The per-fragment shading model of webgl-play (src/src/play.ts, with the *)
(* parameterised blur functions of src/src/webgl/shaders/blurShader.ts).   *)
(*                                                                         *)
(* One evaluation of main() for one fragment is a sequential process: the  *)
(* three background_noise calls, the two wave_alpha calls (each a 7-tap    *)
(* loop over wave_alpha_part), the two lerp blends and calc_color.         *)
(*                                                                         *)
(* Floats are fixed-point integers counted in units of 1/SCALE, every      *)
(* product and quotient rounded down.  A result the GLSL ES specification  *)
(* leaves undefined (pow of a negative base, division by zero) is a        *)
(* nondeterministic choice, carried as a "nan" flag beside the value.      *)
(***************************************************************************)
EXTENDS Integers, Sequences, FiniteSets, TLC

(***************************************************************************)
(* Fixed-point arithmetic.                                                 *)
(***************************************************************************)
ScaleDigits == 4
SCALE == 10^ScaleDigits

\* n/d as a fixed-point number
Q(n, d) == (n * SCALE) \div d

\* floor(a*b/SCALE); a may be large, |b| stays below 20.0
Mul(a, b) == (a \div SCALE) * b + ((a % SCALE) * b) \div SCALE

RECURSIVE LongDiv(_, _, _)
LongDiv(r, b, k) ==
  IF k = 0 THEN 0
  ELSE LET t == r * 10 IN (t \div b) * 10^(k - 1) + LongDiv(t % b, b, k - 1)

\* floor(a*SCALE/b), b # 0
Div(a, b) ==
  LET n == IF b < 0 THEN -a ELSE a
      d == IF b < 0 THEN -b ELSE b
  IN (n \div d) * SCALE + LongDiv(n % d, d, ScaleDigits)

Min(a, b) == IF a < b THEN a ELSE b
Max(a, b) == IF a > b THEN a ELSE b

LN2 == Q(6931, 10000)
MATH_PI == Q(31416, 10000)

LnSeries(m) ==
  LET z  == Div(m - SCALE, m + SCALE)
      z2 == Mul(z, z)
  IN 2 * Mul(z, SCALE + Mul(z2, SCALE \div 3 + Mul(z2, SCALE \div 5
                 + Mul(z2, SCALE \div 7 + Mul(z2, SCALE \div 9)))))

RECURSIVE Ln(_)
Ln(b) ==
  IF b < SCALE \div 2 THEN Ln(2 * b) - LN2
  ELSE IF b > SCALE THEN Ln(b \div 2) + LN2
  ELSE LnSeries(b)

ExpSeries(r) ==
  SCALE + Mul(r, SCALE + Mul(r, SCALE \div 2 + Mul(r, SCALE \div 6
        + Mul(r, SCALE \div 24 + Mul(r, SCALE \div 120 + Mul(r, SCALE \div 720))))))

Exp(y) ==
  IF y <= 0
  THEN LET n == (-y) \div LN2
           r == (-y) % LN2
       IN IF n > 30 THEN 0 ELSE ExpSeries(-r) \div 2^n
  ELSE LET n == y \div LN2
           r == y % LN2
       IN ExpSeries(r) * 2^n

\* cosine on [0, pi/2]
CosSeries(th) ==
  LET t2 == Mul(th, th)
  IN SCALE - Mul(t2, SCALE \div 2 - Mul(t2, SCALE \div 24
           - Mul(t2, SCALE \div 720 - Mul(t2, SCALE \div 40320))))

\* sine of an angle in [0, 2 pi)
SinReduced(th) ==
  LET half == MATH_PI \div 2
      fold(a) == IF a > half THEN MATH_PI - a ELSE a
  IN IF th >= MATH_PI
     THEN -CosSeries(half - fold(th - MATH_PI))
     ELSE CosSeries(half - fold(th))

(***************************************************************************)
(* GLSL built-ins, as the shader uses them.                                *)
(***************************************************************************)
sin(th) == SinReduced(th % (2 * MATH_PI))
cos(th) == sin(th + MATH_PI \div 2)

\* pow(x, y) is undefined for x < 0, and for x = 0 with y <= 0
PowDefined(x, y) == x > 0 \/ (x = 0 /\ y > 0)
pow(x, y) == IF x = 0 THEN 0 ELSE Exp(Mul(Ln(x), y))

clamp(x, lo, hi) == Min(Max(x, lo), hi)
mix(a, b, t) == Mul(a, SCALE - t) + Mul(b, t)

(***************************************************************************)
(* Coherent noise.  The lattice scheme is irrelevant to the compositor:    *)
(* the noise is a deterministic, continuous function of its input whose    *)
(* values are those of the lattice field nf, here a periodic value noise   *)
(* along one axis of the input.                                            *)
(***************************************************************************)
value_noise(nf, c) ==
  LET K    == Len(nf)
      cell == (c \div SCALE) % K
  IN mix(nf[cell + 1], nf[((cell + 1) % K) + 1], c % SCALE)

simplex_noise2(nf, x, y) == value_noise(nf, x + 3 * y)
simplex_noise3(nf, x, y, z) == value_noise(nf, x + 3 * y + 7 * z)

(***************************************************************************)
(* The shader, function by function.  fc is gl_FragCoord, un the uniforms, *)
(* nf the noise field.                                                     *)
(***************************************************************************)
\* floor(a*n/d) for a small rational constant n/d
MulRat(a, n, d) == (a \div d) * n + ((a % d) * n) \div d

PI == 3 * SCALE + Q(14159, 100000)

\* WAVE1_Y with wave 2's fraction
WAVE1_Y_low(un) == Mul(un.u_resolution.y, Q(9, 10))

WAVE1_Y(un) == Mul(un.u_resolution.y, Q(45, 100))
WAVE2_Y(un) == Mul(un.u_resolution.y, Q(9, 10))

\* get_x without the viewport centring
get_x_raw(fc, un) == 900 * SCALE + fc.x

get_x(fc, un) == 900 * SCALE + fc.x - un.u_resolution.x \div 2

smoothstep_(t) == Mul(Mul(Mul(t, t), t), Mul(t, 6 * t - 15 * SCALE) + 10 * SCALE)

\* lerp with its weights exchanged
lerp_swapped(a, b, t) == Mul(a, t) + Mul(b, SCALE - t)

lerp(a, b, t) == Mul(a, SCALE - t) + Mul(b, t)

ease_in(x) == SCALE - cos(Mul(Mul(x, PI), Q(1, 2)))

background_noise(offset, fc, un, nf) ==
  LET S      == Mul(Q(64, 1000), un.u_speed)
      F      == Mul(Q(4, 100), un.u_speed)
      L1     == Q(15, 10)
      L2     == Q(9, 10)
      L3     == Q(6, 10)
      LY1    == Q(100, 100)
      LY2    == Q(85, 100)
      LY3    == Q(70, 100)
      Y_SCALE == Q(100, 27)
      \* x = get_x() * L, L = 0.00085 * u_waveFreq.x
      x      == MulRat(Mul(get_x(fc, un), un.u_waveFreq.x), 85, 100000)
      yL     == MulRat(Mul(fc.y, un.u_waveFreq.x), 85, 100000)
      y      == Mul(Mul(yL, Y_SCALE), Div(un.u_waveFreq.y, un.u_waveFreq.x))
      time   == Mul(un.u_time, un.u_speed) + offset
      x_shift == Mul(time, F)
      n1     == simplex_noise3(nf, Mul(x, L1) + Mul(x_shift, Q(11, 10)),
                               Mul(Mul(y, L1), LY1), Mul(time, S))
      n2     == simplex_noise3(nf, Mul(x, L2) + Mul(-x_shift, Q(6, 10)),
                               Mul(Mul(y, L2), LY2), Mul(time, S))
      n3     == simplex_noise3(nf, Mul(x, L3) + Mul(x_shift, Q(8, 10)),
                               Mul(Mul(y, L3), LY3), Mul(time, S))
  IN Q(1, 2) + Mul(n1, Q(30, 100)) + Mul(n2, Q(25, 100)) + Mul(n3, Q(20, 100))

wave_y_noise(offset, fc, un, nf) ==
  LET S      == Mul(Q(75, 1000), un.u_speed)
      F      == Mul(Q(26, 1000), un.u_speed)
      time   == Mul(un.u_time, un.u_speed) + offset
      \* x = get_x() * L, L = 0.000845 * u_waveFreq.x
      x      == MulRat(Mul(get_x(fc, un), un.u_waveFreq.x), 845, 1000000)
      y      == Mul(time, S)
      x_shift == Mul(time, F)
  IN   Mul(simplex_noise2(nf, Mul(x, Q(130, 100)) + x_shift, Mul(y, Q(54, 100))), Q(85, 100))
     + Mul(simplex_noise2(nf, Mul(x, Q(100, 100)) + x_shift, Mul(y, Q(68, 100))), Q(115, 100))
     + Mul(simplex_noise2(nf, Mul(x, Q(70, 100)) + x_shift, Mul(y, Q(59, 100))), Q(60, 100))
     + Mul(simplex_noise2(nf, Mul(x, Q(40, 100)) + x_shift, Mul(y, Q(48, 100))), Q(40, 100))

\* a bias that varies with the viewport
calc_blur_bias_spatial(speed, pulsingSpeed, un) ==
  LET S      == Mul(Mul(Q(261, 1000), speed), pulsingSpeed)
      bias_t == Mul(sin(Mul(un.u_time, S) + un.u_resolution.x \div 1000) + SCALE, Q(1, 2))
  IN lerp(-Q(17, 100), -Q(4, 100), bias_t)

calc_blur_bias(speed, pulsingSpeed, un) ==
  LET S      == Mul(Mul(Q(261, 1000), speed), pulsingSpeed)
      bias_t == Mul(sin(Mul(un.u_time, S)) + SCALE, Q(1, 2))
  IN lerp(-Q(17, 100), -Q(4, 100), bias_t)

\* the two noise octaves calc_blur reads
calc_blur_noise(offset, fc, un, nf) ==
  LET S    == Mul(Mul(Q(7, 100), un.u_speed), un.u_blurNoiseSpeed)
      F    == Mul(Q(3, 100), un.u_speed)
      time == Mul(un.u_time, un.u_speed) + offset
      \* x = get_x() * L, L = 0.0011 * waveFreqX * noiseScale
      x    == MulRat(Mul(Mul(get_x(fc, un), un.u_waveFreq.x), un.u_blurNoiseScale), 11, 10000)
  IN [n1 |-> simplex_noise2(nf, Mul(x, Q(60, 100)) + Mul(Mul(time, F), Q(10, 10)),
                            Mul(Mul(time, S), Q(7, 10))),
      n2 |-> simplex_noise2(nf, Mul(x, Q(130, 100)) + Mul(Mul(time, F), -Q(8, 10)),
                            Mul(Mul(time, S), Q(10, 10)))]

\* calc_blur_fac without its clamp
calc_blur_fac_noclamp(bias, n1, n2) ==
  LET b1 == bias + Mul(n1, Q(5, 10))
      b2 == b1 + Mul(n2, Q(4, 10))
  IN Mul(b2 + SCALE, Q(1, 2))

\* calc_blur_fac bounded below only
calc_blur_fac_nomax(bias, n1, n2) == Max(calc_blur_fac_noclamp(bias, n1, n2), 0)

\* calc_blur from its bias and its two noise samples on
calc_blur_fac(bias, n1, n2) ==
  LET b1 == bias + Mul(n1, Q(5, 10))
      b2 == b1 + Mul(n2, Q(4, 10))
      b3 == Mul(b2 + SCALE, Q(1, 2))
  IN clamp(b3, 0, SCALE)

calc_blur(offset, fc, un, nf) ==
  LET n == calc_blur_noise(offset, fc, un, nf)
  IN calc_blur_fac(calc_blur_bias(un.u_speed, un.u_blurPulsingSpeed, un), n.n1, n.n2)

blurQuality == 7
PART == Q(1, blurQuality)

\* wave_alpha_part whose v is clamped to [0, 1]: no floor
wave_alpha_part_nofloor(dist, blur_fac, t, blurSharpnessRange, blurAmount) ==
  LET exp   == mix(blurSharpnessRange.x, blurSharpnessRange.y, t)
      powOk == PowDefined(blur_fac, exp)
      v0    == IF powOk THEN pow(blur_fac, exp) ELSE 0
      v3    == clamp(smoothstep_(ease_in(v0)), 0, SCALE)
      v4    == Mul(345 * blurAmount, v3)
      ok    == powOk /\ v4 # 0
      a0    == IF ok THEN clamp(Q(1, 2) + Div(dist, v4), 0, SCALE) ELSE 0
  IN [t |-> t, exp |-> exp, base |-> blur_fac, floored |-> v3, v |-> v4,
      defined |-> ok, alpha |-> smoothstep_(a0)]

\* wave_alpha_part with its locals; alpha is the value returned.  defined is
\* FALSE when the pow or the division has no defined result.
wave_alpha_part(dist, blur_fac, t, blurSharpnessRange, blurAmount) ==
  LET exp   == mix(blurSharpnessRange.x, blurSharpnessRange.y, t)
      powOk == PowDefined(blur_fac, exp)
      v0    == IF powOk THEN pow(blur_fac, exp) ELSE 0
      v1    == ease_in(v0)
      v2    == smoothstep_(v1)
      v3    == clamp(v2, Q(8, 1000), SCALE)
      v4    == Mul(345 * blurAmount, v3)
      ok    == powOk /\ v4 # 0
      a0    == IF ok THEN clamp(Q(1, 2) + Div(dist, v4), 0, SCALE) ELSE 0
  IN [t |-> t, exp |-> exp, base |-> blur_fac, floored |-> v3, v |-> v4,
      defined |-> ok, alpha |-> smoothstep_(a0)]

\* what a call can return: its value, or for an undefined pow or quotient
\* whatever the GPU produces (a NaN, or a number the clamp sends to 0 or 1)
wave_alpha_part_outcomes(r) ==
  IF r.defined
  THEN {r @@ [nan |-> FALSE]}
  ELSE {[r EXCEPT !.alpha = 0] @@ [nan |-> TRUE],
        [r EXCEPT !.alpha = 0] @@ [nan |-> FALSE],
        [r EXCEPT !.alpha = SCALE] @@ [nan |-> FALSE]}

\* the loop test with <= for <
wave_alpha_continue_inclusive(k) == k <= blurQuality

\* the loop test and the sample position of wave_alpha
wave_alpha_continue(k) == k < blurQuality
wave_alpha_t(k) == IF blurQuality = 1 THEN Q(1, 2) ELSE PART * k

\* calc_color without its clamp
calc_color_noclamp(l, un) == [k \in 1..3 |-> mix(un.u_color1[k], un.u_color2[k], l)]

calc_color(l, un) ==
  LET c == clamp(l, 0, SCALE)
  IN [k \in 1..3 |-> mix(un.u_color1[k], un.u_color2[k], c)]

(***************************************************************************)
(* The gradient texture of the production shader: the ramp rendered into   *)
(* 256 RGBA texels and sampled with CLAMP_TO_EDGE wrapping and LINEAR      *)
(* filtering.                                                              *)
(***************************************************************************)
GradientWidth == 256

lerpColor(color1, color2, t) ==
  [k \in 1..3 |-> Mul(color1[k], SCALE - t) + Mul(color2[k], t)]

\* the stop search that never advances
StopIndex_stuck(stops, t, idx) == idx

\* the while loop that finds the two stops around t
RECURSIVE StopIndex(_, _, _)
StopIndex(stops, t, idx) ==
  IF idx < Len(stops) - 1 /\ t > stops[idx + 1].position
    THEN StopIndex(stops, t, idx + 1)
    ELSE idx

\* a colour string: a hex colour with its three bytes, or an hsl() expression
Hex(r, g, b) == [fmt |-> "hex", rgb |-> <<r, g, b>>]
Hsl(h, s, l) == [fmt |-> "hsl", rgb |-> <<h, s, l>>]

\* hexToRgb: a string that is neither #RGB nor #RRGGBB leaves r = g = b = 0
hexToRgb(hex) ==
  IF hex.fmt = "hex" THEN [k \in 1..3 |-> Q(hex.rgb[k], 255)] ELSE <<0, 0, 0>>

\* one iteration of the texel loop of generateGradientTextureData, entered
\* with currentStopIndex = idx0; the 1e-6 added to the divisor is below the
\* resolution and only keeps it from being zero
TexelAt(stops, n, idx0) ==
  LET t        == Q(n, GradientWidth - 1)
      idx      == StopIndex(stops, t, idx0)
      stop1    == stops[idx]
      stop2    == stops[idx + 1]
      span     == stop2.position - stop1.position
      segmentT == IF span # 0 THEN Div(t - stop1.position, span)
                  ELSE IF t > stop1.position THEN SCALE
                  ELSE IF t < stop1.position THEN -SCALE ELSE 0
      clampedSegmentT == Max(0, Min(SCALE, segmentT))
      rgb      == lerpColor(hexToRgb(stop1.color), hexToRgb(stop2.color), clampedSegmentT)
  IN [n |-> n, t |-> t, currentStopIndex |-> idx,
      stop1 |-> stop1, stop2 |-> stop2,
      clampedSegmentT |-> clampedSegmentT,
      data |-> [k \in 1..3 |-> (rgb[k] * 255 + SCALE \div 2) \div SCALE]]

\* one texel of generateGradientTextureData, as three bytes
GradientTexel(stops, n) == TexelAt(stops, n, 1).data

\* a texel as the sampler returns it, normalised to [0,1]
NormTexel(stops, n) == [k \in 1..3 |-> (GradientTexel(stops, n)[k] * SCALE) \div 255]

\* texture2D(u_gradient, vec2(s, 0.5)) under TEXTURE_WRAP_S = CLAMP_TO_EDGE and
\* LINEAR filtering: the texel coordinate is clamped to the texel centres
texture2D(stops, s) ==
  LET u    == clamp(s * GradientWidth, SCALE \div 2,
                    GradientWidth * SCALE - SCALE \div 2) - SCALE \div 2
      i0   == u \div SCALE
      i1   == Min(i0 + 1, GradientWidth - 1)
      frac == u % SCALE
  IN [k \in 1..3 |-> mix(NormTexel(stops, i0)[k], NormTexel(stops, i1)[k], frac)]

\* the ramp of the two colours as colour stops
ToHex(c) ==
  Hex((c[1] * 255 + SCALE \div 2) \div SCALE, (c[2] * 255 + SCALE \div 2) \div SCALE,
      (c[3] * 255 + SCALE \div 2) \div SCALE)

GradientStops(un) ==
  <<[position |-> 0, color |-> ToHex(un.u_color1)],
    [position |-> SCALE, color |-> ToHex(un.u_color2)]>>

(***************************************************************************)
(* One evaluation of main() as a process.                                  *)
(***************************************************************************)
VARIABLES
  fc,            \* gl_FragCoord
  un,            \* the uniforms
  nf,            \* the noise field
  pc,            \* position in main()
  cur,           \* the wave whose wave_alpha call is running (1 or 2)
  bg_lightness, w1_lightness, w2_lightness,
  dist,          \* wave_alpha: wave_y - gl_FragCoord.y
  blur_in,       \* calc_blur: the bias and the two noise samples
  blur_fac,      \* wave_alpha: calc_blur(offset)
  i, sum,        \* wave_alpha: the loop counter and the accumulator
  nan,           \* the accumulator holds an undefined value
  taps,          \* the wave_alpha_part calls of the running wave_alpha
  w1_alpha, w2_alpha,
  lightness,
  gl_FragColor,
  evals,         \* the evaluations of main() completed so far
  hpc,           \* what the host hook is doing
  now,           \* Date.now()
  colorStops,    \* useGradientState: the colour stops
  sortedStops,   \* generateGradientTextureData: its copy of the stops
  currentStopIndex,
  ti,            \* generateGradientTextureData: the texel being written
  texel,         \* the stops, position and factor of the texel written last
  parameters,    \* useGradientState: speed, waveFreqX, waveAmpX
  parameterRefs, \* useGradientState: speedRef, waveFreqXRef, waveAmpXRef
  dirty,         \* the state changed since the effects ran last
  glRef,         \* useWebGLGradient: "null", "gl" (glRef set, programRef
                 \* null) or "program" (glRef and programRef set)
  uniforms,      \* the uniform values of the program
  startTime,     \* the startTime of the running effect
  loop,          \* how many times the initialising effect has run
  rafQueue,      \* the requestAnimationFrame callbacks not yet run
  rafNext,       \* the id requestAnimationFrame returns next
  animationFrameId,
  frames,        \* the frame drawn last
  mounted,       \* App: "no" before it is mounted, "yes", "gone" after
  gradientTexture, \* the ramp the gradient texture was generated from
  fboHook,       \* the hook that renders through a framebuffer: its refs,
                 \* the GL objects it has allocated, its pending timeouts
  layered,       \* useLayeredTextureGradient and its LayeredTextureRenderer
  inline         \* the App component that drives WebGL inline

gradient == <<sortedStops, currentStopIndex, ti, texel>>

hook == <<parameters, parameterRefs, dirty, glRef, uniforms, startTime, loop,
          rafQueue, rafNext, animationFrameId, frames, mounted, gradientTexture>>

others == <<fboHook, layered, inline>>

host == <<hpc, now, colorStops, gradient, hook, others>>

shader == <<fc, un, nf, pc, cur, bg_lightness, w1_lightness, w2_lightness, dist,
            blur_in, blur_fac, i, sum, nan, taps, w1_alpha, w2_alpha, lightness,
            gl_FragColor, evals>>

vars == <<shader, host>>

inputs == <<fc, un, nf>>

(***************************************************************************)
(* The colour stops and the gradient texture made from them.               *)
(***************************************************************************)
DEFAULT_COLOR_STOPS ==
  <<[id |-> 1, position |-> 0, color |-> Hex(255, 43, 0)],
    [id |-> 2, position |-> Q(1, 2), color |-> Hex(255, 204, 0)],
    [id |-> 3, position |-> SCALE, color |-> Hex(0, 170, 255)]>>

\* the clock when the page loads, later than the ids of the default stops
PageLoad == 10

\* Array.prototype.sort((a, b) => a.position - b.position), which is stable
RECURSIVE InsertByPosition(_, _)
InsertByPosition(sorted, s) ==
  IF sorted = <<>> THEN <<s>>
  ELSE IF sorted[Len(sorted)].position <= s.position THEN Append(sorted, s)
  ELSE Append(InsertByPosition(SubSeq(sorted, 1, Len(sorted) - 1), s),
              sorted[Len(sorted)])

\* the list as it is, unsorted
SortByPosition_asis(stops) == stops

RECURSIVE SortByPosition(_)
SortByPosition(stops) ==
  IF stops = <<>> THEN <<>>
  ELSE InsertByPosition(SortByPosition(SubSeq(stops, 1, Len(stops) - 1)),
                        stops[Len(stops)])

\* the sorted copy with the implicit stop at 0 only
SortedWithBoundaryStops_nopush(stops, clock) ==
  LET sorted == SortByPosition(stops)
  IN IF Len(sorted) = 0 \/ sorted[1].position # 0
       THEN <<[id |-> clock, position |-> 0,
               color |-> IF Len(sorted) > 0 THEN sorted[1].color ELSE Hex(0, 0, 0)]>>
            \o sorted
       ELSE sorted

\* generateGradientTextureData up to its loop: the sorted copy, with the
\* implicit stops at 0 and 1 where they are missing
SortedWithBoundaryStops(stops, clock) ==
  LET sorted == SortByPosition(stops)
      first  == IF Len(sorted) = 0 \/ sorted[1].position # 0
                  THEN <<[id |-> clock, position |-> 0,
                          color |-> IF Len(sorted) > 0 THEN sorted[1].color
                                    ELSE Hex(0, 0, 0)]>> \o sorted
                  ELSE sorted
  IN IF first[Len(first)].position # SCALE
       THEN Append(first, [id |-> clock + 1, position |-> SCALE,
                           color |-> first[Len(first)].color])
       ELSE first

NoTexel == [n |-> -1]

DEFAULT_PARAMETERS ==
  [speed |-> SCALE,
   waveFreqX |-> 6 * SCALE, waveFreqY |-> 4 * SCALE,
   waveAmpX |-> Q(12, 100), waveAmpY |-> Q(12, 100),
   noiseScale |-> SCALE, noiseVerticalStretch |-> SCALE,
   noiseSwirlSpeed |-> SCALE, noiseFlowSpeed |-> SCALE,
   blurAmount |-> SCALE,
   blurSharpnessMin |-> Q(9, 10), blurSharpnessMax |-> Q(12, 10),
   blurNoiseScale |-> SCALE, blurNoiseSpeed |-> SCALE, blurPulsingSpeed |-> SCALE]

PARAMETER_CONSTRAINTS ==
  [speed |-> [min |-> Q(3, 10), max |-> 5 * SCALE],
   waveFreqX |-> [min |-> 2 * SCALE, max |-> 20 * SCALE],
   waveFreqY |-> [min |-> 2 * SCALE, max |-> 20 * SCALE],
   waveAmpX |-> [min |-> Q(5, 100), max |-> Q(3, 10)],
   waveAmpY |-> [min |-> Q(5, 100), max |-> Q(3, 10)],
   noiseScale |-> [min |-> Q(1, 10), max |-> 5 * SCALE],
   noiseVerticalStretch |-> [min |-> Q(2, 10), max |-> 3 * SCALE],
   noiseSwirlSpeed |-> [min |-> Q(1, 10), max |-> 5 * SCALE],
   noiseFlowSpeed |-> [min |-> Q(1, 10), max |-> 5 * SCALE],
   blurAmount |-> [min |-> Q(1, 10), max |-> 3 * SCALE],
   blurSharpnessMin |-> [min |-> Q(5, 10), max |-> Q(15, 10)],
   blurSharpnessMax |-> [min |-> Q(8, 10), max |-> 2 * SCALE],
   blurNoiseScale |-> [min |-> Q(1, 10), max |-> 5 * SCALE],
   blurNoiseSpeed |-> [min |-> Q(1, 10), max |-> 5 * SCALE],
   blurPulsingSpeed |-> [min |-> Q(1, 10), max |-> 5 * SCALE]]

NoUniforms == [u_time |-> 0, u_speed |-> 0, u_waveFreq |-> 0, u_waveAmp |-> 0]

\* the framebuffer hook before its component is mounted: every ref null,
\* nothing allocated
FboOff ==
  [glRef |-> FALSE, programRef |-> 0, textureRefs |-> 0, inits |-> 0,
   alive |-> {}, hasCleanup |-> FALSE, raf |-> FALSE, timeouts |-> 0,
   uniforms |-> <<>>, deadTouched |-> {}]

\* useLayeredTextureGradient before its component is mounted; the canvas has
\* the default width of a canvas element
LayeredOff ==
  [renderer |-> "none", gl |-> FALSE, program |-> FALSE, animationFrame |-> FALSE,
   observed |-> FALSE, canvas |-> 300, display |-> 300, alive |-> {}, layers |-> 0,
   adaptiveResolution |-> TRUE, dpr |-> 1, frames |-> 0, lateCalls |-> {}]

\* the inline App before it is mounted
InlineOff ==
  [speed |-> SCALE, effectSpeed |-> SCALE, effects |-> 0, cleanupOf |-> 0, alive |-> {},
   loops |-> {}, observed |-> {}, draws |-> 0, deadDraws |-> {}]

OthersOff == fboHook = FboOff /\ layered = LayeredOff /\ inline = InlineOff

\* the hook before its component is mounted
HookOff ==
  /\ OthersOff
  /\ parameters = DEFAULT_PARAMETERS
  /\ parameterRefs = DEFAULT_PARAMETERS
  /\ dirty = {}
  /\ glRef = "null"
  /\ uniforms = NoUniforms
  /\ startTime = 0
  /\ loop = 0
  /\ rafQueue = {}
  /\ rafNext = 1
  /\ animationFrameId = 0
  /\ frames = <<>>
  /\ mounted = "no"
  /\ gradientTexture = <<>>

HostIdle ==
  /\ HookOff
  /\ hpc = "idle"
  /\ now = PageLoad
  /\ colorStops = DEFAULT_COLOR_STOPS
  /\ sortedStops = <<>>
  /\ currentStopIndex = 1
  /\ ti = 0
  /\ texel = NoTexel

WaveY(w, u) == IF w = 1 THEN WAVE1_Y(u) ELSE WAVE2_Y(u)
WaveHeight(w, u) ==
  Mul(u.u_resolution.y, IF w = 1 THEN u.u_waveAmp.x ELSE u.u_waveAmp.y)
WaveOffset(w) ==
  IF w = 1 THEN MulRat(Q(1125, 10), 4875, 100) ELSE MulRat(225 * SCALE, 3600, 100)

\* main: the three background_noise calls
BackgroundNoise ==
  /\ pc = "bg"
  /\ bg_lightness' = background_noise(-Q(1924, 10), fc, un, nf)
  /\ w1_lightness' = background_noise(Q(2733, 10), fc, un, nf)
  /\ w2_lightness' = background_noise(Q(6231, 10), fc, un, nf)
  /\ pc' = "wave"
  /\ cur' = 1
  /\ UNCHANGED <<host, evals, inputs, dist, blur_in, blur_fac, i, sum, nan, taps, w1_alpha,
                 w2_alpha, lightness, gl_FragColor>>

\* wave_alpha: wave_y, dist, and calc_blur up to its noise samples
WaveEnter ==
  /\ pc = "wave"
  /\ LET wave_y == WaveY(cur, un)
                   + Mul(WaveHeight(cur, un), wave_y_noise(WaveOffset(cur), fc, un, nf))
         n      == calc_blur_noise(WaveOffset(cur), fc, un, nf)
     IN /\ dist' = wave_y - fc.y
        /\ blur_in' = [bias |-> calc_blur_bias(un.u_speed, un.u_blurPulsingSpeed, un),
                       n1 |-> n.n1, n2 |-> n.n2]
  /\ pc' = "blur"
  /\ UNCHANGED <<host, evals, inputs, cur, bg_lightness, w1_lightness, w2_lightness, blur_fac,
                 i, sum, nan, taps, w1_alpha, w2_alpha, lightness, gl_FragColor>>

\* calc_blur, the loop then starting with the accumulator as it was left
CalcBlur_stale ==
  /\ pc = "blur"
  /\ blur_fac' = calc_blur_fac(blur_in.bias, blur_in.n1, blur_in.n2)
  /\ i' = 0
  /\ sum' = sum
  /\ nan' = FALSE
  /\ taps' = <<>>
  /\ pc' = "taps"
  /\ UNCHANGED <<host, evals, inputs, cur, bg_lightness, w1_lightness, w2_lightness, dist,
                 blur_in, w1_alpha, w2_alpha, lightness, gl_FragColor>>

\* calc_blur: the weighted sum, the remap and the clamp; then the loop starts
CalcBlur ==
  /\ pc = "blur"
  /\ blur_fac' = calc_blur_fac(blur_in.bias, blur_in.n1, blur_in.n2)
  /\ i' = 0
  /\ sum' = 0
  /\ nan' = FALSE
  /\ taps' = <<>>
  /\ pc' = "taps"
  /\ UNCHANGED <<host, evals, inputs, cur, bg_lightness, w1_lightness, w2_lightness, dist,
                 blur_in, w1_alpha, w2_alpha, lightness, gl_FragColor>>

\* the loop body adding the sample unweighted
AlphaTap_unweighted ==
  /\ pc = "taps"
  /\ wave_alpha_continue(i)
  /\ \E o \in wave_alpha_part_outcomes(
                wave_alpha_part(dist, blur_fac, wave_alpha_t(i),
                                un.u_blurSharpnessRange, un.u_blurAmount)) :
        /\ sum' = sum + o.alpha
        /\ nan' = (nan \/ o.nan)
        /\ taps' = Append(taps, o)
  /\ i' = i + 1
  /\ UNCHANGED <<host, evals, inputs, pc, cur, bg_lightness, w1_lightness, w2_lightness, dist,
                 blur_in, blur_fac, w1_alpha, w2_alpha, lightness, gl_FragColor>>

\* wave_alpha: one iteration of the loop
AlphaTap ==
  /\ pc = "taps"
  /\ wave_alpha_continue(i)
  /\ \E o \in wave_alpha_part_outcomes(
                wave_alpha_part(dist, blur_fac, wave_alpha_t(i),
                                un.u_blurSharpnessRange, un.u_blurAmount)) :
        /\ sum' = sum + Mul(o.alpha, PART)
        /\ nan' = (nan \/ o.nan)
        /\ taps' = Append(taps, o)
  /\ i' = i + 1
  /\ UNCHANGED <<host, evals, inputs, pc, cur, bg_lightness, w1_lightness, w2_lightness, dist,
                 blur_in, blur_fac, w1_alpha, w2_alpha, lightness, gl_FragColor>>

\* wave_alpha: the loop is over, return sum to main
AlphaReturn ==
  /\ pc = "taps"
  /\ ~wave_alpha_continue(i)
  /\ IF cur = 1
     THEN w1_alpha' = sum /\ pc' = "wave" /\ cur' = 2 /\ UNCHANGED w2_alpha
     ELSE w2_alpha' = sum /\ pc' = "blend_w2" /\ UNCHANGED <<cur, w1_alpha>>
  /\ UNCHANGED <<host, evals, inputs, bg_lightness, w1_lightness, w2_lightness, dist, blur_in,
                 blur_fac, i, sum, nan, taps, lightness, gl_FragColor>>

\* the first blend taking wave 1 for wave 2
BlendWave2_wave1 ==
  /\ pc = "blend_w2"
  /\ lightness' = lerp(bg_lightness, w1_lightness, w1_alpha)
  /\ pc' = "blend_w1"
  /\ UNCHANGED <<host, evals, inputs, cur, bg_lightness, w1_lightness, w2_lightness, dist,
                 blur_in, blur_fac, i, sum, nan, taps, w1_alpha, w2_alpha,
                 gl_FragColor>>

\* main: lightness = bg_lightness; lightness = lerp(lightness, w2_lightness, w2_alpha)
BlendWave2 ==
  /\ pc = "blend_w2"
  /\ lightness' = lerp(bg_lightness, w2_lightness, w2_alpha)
  /\ pc' = "blend_w1"
  /\ UNCHANGED <<host, evals, inputs, cur, bg_lightness, w1_lightness, w2_lightness, dist,
                 blur_in, blur_fac, i, sum, nan, taps, w1_alpha, w2_alpha,
                 gl_FragColor>>

\* main: lightness = lerp(lightness, w1_lightness, w1_alpha)
BlendWave1 ==
  /\ pc = "blend_w1"
  /\ lightness' = lerp(lightness, w1_lightness, w1_alpha)
  /\ pc' = "color"
  /\ UNCHANGED <<host, evals, inputs, cur, bg_lightness, w1_lightness, w2_lightness, dist,
                 blur_in, blur_fac, i, sum, nan, taps, w1_alpha, w2_alpha,
                 gl_FragColor>>

\* main: gl_FragColor = vec4(calc_color(lightness), 1.0)
CalcColor ==
  /\ pc = "color"
  /\ gl_FragColor' = calc_color(lightness, un)
  /\ pc' = "done"
  /\ UNCHANGED <<host, evals, inputs, cur, bg_lightness, w1_lightness, w2_lightness, dist,
                 blur_in, blur_fac, i, sum, nan, taps, w1_alpha, w2_alpha,
                 lightness>>

\* main of the production shader: the colour is the gradient texture sampled
\* at the lightness
SampleGradient ==
  /\ pc = "color"
  /\ gl_FragColor' = texture2D(GradientStops(un), lightness)
  /\ pc' = "sampled"
  /\ UNCHANGED <<host, evals, inputs, cur, bg_lightness, w1_lightness, w2_lightness, dist,
                 blur_in, blur_fac, i, sum, nan, taps, w1_alpha, w2_alpha,
                 lightness>>

(***************************************************************************)
(* The inputs.                                                             *)
(***************************************************************************)
NoiseCells == 3
NoiseVals == {-SCALE, 0, SCALE}
NoiseFields == [1..NoiseCells -> NoiseVals]

Pixel(col, row) == [x |-> col * SCALE + SCALE \div 2, y |-> row * SCALE + SCALE \div 2]

Red  == <<SCALE, 0, 0>>
Blue == <<0, 0, SCALE>>
Grey == <<Q(1, 2), Q(1, 2), Q(1, 2)>>

\* the uniforms of one frame; the parameters left out are the defaults
Uniforms(time, width, height, amp, amount, range, c1, c2) ==
  [u_time |-> time,
   u_resolution |-> [x |-> width * SCALE, y |-> height * SCALE],
   u_speed |-> SCALE,
   u_waveFreq |-> [x |-> 5 * SCALE, y |-> 3 * SCALE],
   u_waveAmp |-> [x |-> amp, y |-> amp],
   u_blurAmount |-> amount,
   u_blurSharpnessRange |-> range,
   u_blurNoiseScale |-> SCALE,
   u_blurNoiseSpeed |-> SCALE,
   u_blurPulsingSpeed |-> SCALE,
   u_color1 |-> c1,
   u_color2 |-> c2]

DefaultRange == [x |-> Q(9, 10), y |-> Q(12, 10)]
WideRange    == [x |-> Q(5, 10), y |-> 2 * SCALE]

FragCols == {0, 100, 200}
FragRows == {300, 590}
Widths   == {800, 1000}
Times    == {0, 3 * SCALE}
Amps     == {Q(5, 100), Q(30, 100)}
Amounts  == {Q(1, 10), SCALE}
Ranges   == {DefaultRange, WideRange}

\* the variables main() has not assigned yet
Unassigned ==
  /\ cur = 1
  /\ bg_lightness = 0 /\ w1_lightness = 0 /\ w2_lightness = 0
  /\ dist = 0
  /\ blur_in = [bias |-> 0, n1 |-> 0, n2 |-> 0]
  /\ blur_fac = 0
  /\ i = 0 /\ sum = 0 /\ nan = FALSE /\ taps = <<>>
  /\ w1_alpha = 0 /\ w2_alpha = 0
  /\ lightness = 0
  /\ gl_FragColor = <<0, 0, 0>>

Init ==
  /\ HostIdle
  /\ evals = <<>>
  /\ \E col \in FragCols, row \in FragRows : fc = Pixel(col, row)
  /\ \E time \in Times, width \in Widths, amp \in Amps :
        un = Uniforms(time, width, 600, amp, SCALE, DefaultRange, Red, Blue)
  /\ nf \in NoiseFields
  /\ pc = "bg"
  /\ Unassigned

Next ==
  \/ BackgroundNoise
  \/ WaveEnter
  \/ CalcBlur
  \/ AlphaTap
  \/ AlphaReturn
  \/ BlendWave2
  \/ BlendWave1
  \/ CalcColor
  \/ SampleGradient

Spec == Init /\ [][Next]_vars

(***************************************************************************)
(* The compositor and calc_color on their own: main() from its first       *)
(* blend on, for any three lightness values and any two alphas.            *)
(***************************************************************************)
LightVals == {-Q(4, 10), 0, Q(3, 10), SCALE, Q(16, 10)}
AlphaVals == {0, Q(1, 4), Q(1, 2), SCALE}

InitBlend ==
  /\ HostIdle
  /\ evals = <<>>
  /\ fc = Pixel(0, 0)
  /\ \E c \in {<<Red, Blue>>, <<Grey, Red>>} :
        un = Uniforms(0, 800, 600, Q(5, 100), SCALE, DefaultRange, c[1], c[2])
  /\ nf = [k \in 1..NoiseCells |-> 0]
  /\ pc = "blend_w2"
  /\ cur = 2
  /\ bg_lightness \in LightVals
  /\ w1_lightness \in LightVals
  /\ w2_lightness \in LightVals
  /\ w1_alpha \in AlphaVals
  /\ w2_alpha \in AlphaVals
  /\ dist = 0
  /\ blur_in = [bias |-> 0, n1 |-> 0, n2 |-> 0]
  /\ blur_fac = 0
  /\ i = 0 /\ sum = 0 /\ nan = FALSE /\ taps = <<>>
  /\ lightness = 0
  /\ gl_FragColor = <<0, 0, 0>>

NextBlend == BlendWave2 \/ BlendWave1 \/ CalcColor \/ SampleGradient

SpecBlend == InitBlend /\ [][NextBlend]_vars

(***************************************************************************)
(* wave_alpha's loop on its own, for any distance, blur factor, sharpness  *)
(* range and blurAmount, those the caller never supplies included.         *)
(***************************************************************************)
DistVals     == {-400 * SCALE, -50 * SCALE, 0, 50 * SCALE, 400 * SCALE}
BlurFacVals  == {-Q(1, 2), 0, Q(4475, 10000), SCALE, Q(3, 2)}
AnyAmounts   == {-SCALE, 0, Q(1, 10), 3 * SCALE}
ZeroRange    == [x |-> 0, y |-> Q(12, 10)]
AnyRanges    == Ranges \cup {ZeroRange}

\* PARAMETER_CONSTRAINTS.blurAmount
CallerAmount(a) == Q(1, 10) <= a /\ a <= 3 * SCALE

InitAlpha ==
  /\ HostIdle
  /\ evals = <<>>
  /\ fc = Pixel(0, 0)
  /\ \E amount \in AnyAmounts, range \in AnyRanges :
        un = Uniforms(0, 800, 600, Q(5, 100), amount, range, Red, Blue)
  /\ nf = [k \in 1..NoiseCells |-> 0]
  /\ pc = "taps"
  /\ cur = 1
  /\ bg_lightness = 0 /\ w1_lightness = 0 /\ w2_lightness = 0
  /\ dist \in DistVals
  /\ blur_in = [bias |-> 0, n1 |-> 0, n2 |-> 0]
  /\ blur_fac \in BlurFacVals
  /\ i = 0 /\ sum = 0 /\ nan = FALSE /\ taps = <<>>
  /\ w1_alpha = 0 /\ w2_alpha = 0
  /\ lightness = 0
  /\ gl_FragColor = <<0, 0, 0>>

NextAlpha == AlphaTap \/ AlphaReturn

SpecAlpha == InitAlpha /\ [][NextAlpha]_vars

(***************************************************************************)
(* calc_blur from its bias and noise samples on, for any bias and any      *)
(* noise values, then the wave_alpha loop it feeds.                        *)
(***************************************************************************)
BiasVals  == {-2 * SCALE, -Q(17, 100), -Q(4, 100), 2 * SCALE}
WideNoise == {-Q(3, 2), -SCALE, 0, SCALE, Q(3, 2)}

InitBlur ==
  /\ HostIdle
  /\ evals = <<>>
  /\ fc = Pixel(0, 0)
  /\ \E amount \in Amounts, range \in Ranges :
        un = Uniforms(0, 800, 600, Q(5, 100), amount, range, Red, Blue)
  /\ nf = [k \in 1..NoiseCells |-> 0]
  /\ pc = "blur"
  /\ cur = 1
  /\ bg_lightness = 0 /\ w1_lightness = 0 /\ w2_lightness = 0
  /\ dist \in {-50 * SCALE, 0, 50 * SCALE}
  /\ blur_in \in [bias : BiasVals, n1 : WideNoise, n2 : WideNoise]
  /\ blur_fac = 0
  /\ i = 0 /\ sum = 0 /\ nan = FALSE /\ taps = <<>>
  /\ w1_alpha = 0 /\ w2_alpha = 0
  /\ lightness = 0
  /\ gl_FragColor = <<0, 0, 0>>

NextBlur == CalcBlur \/ AlphaTap \/ AlphaReturn

SpecBlur == InitBlur /\ [][NextBlur]_vars

(***************************************************************************)
(* generateGradientTextureData on its own, for any list of at most         *)
(* MaxStops stops.                                                         *)
(***************************************************************************)
\* generateGradientTextureData sorting and extending the caller's array
GenerateGradientTextureData_inplace ==
  /\ hpc = "idle"
  /\ sortedStops' = SortedWithBoundaryStops(colorStops, now)
  /\ colorStops' = sortedStops'
  /\ currentStopIndex' = 1
  /\ ti' = 0
  /\ texel' = NoTexel
  /\ hpc' = "texels"
  /\ UNCHANGED <<shader, others, hook, now>>

\* generateGradientTextureData: the copy, the sort, the implicit stops
GenerateGradientTextureData ==
  /\ hpc = "idle"
  /\ sortedStops' = SortedWithBoundaryStops(colorStops, now)
  /\ currentStopIndex' = 1
  /\ ti' = 0
  /\ texel' = NoTexel
  /\ hpc' = "texels"
  /\ UNCHANGED <<shader, others, hook, now, colorStops>>

\* one iteration of its loop over the texels
WriteTexel ==
  /\ hpc = "texels"
  /\ ti < GradientWidth
  /\ texel' = TexelAt(sortedStops, ti, currentStopIndex)
  /\ currentStopIndex' = texel'.currentStopIndex
  /\ ti' = ti + 1
  /\ UNCHANGED <<shader, others, hook, hpc, now, colorStops, sortedStops>>

\* return data
ReturnGradientData ==
  /\ hpc = "texels"
  /\ ti = GradientWidth
  /\ hpc' = "idle"
  /\ UNCHANGED <<shader, others, hook, now, colorStops, sortedStops, currentStopIndex, ti, texel>>

MaxStops == 3
StopPositions == {0, Q(1, 4), Q(1, 2), SCALE}
StopColors == <<Hex(255, 43, 0), Hex(0, 170, 255), Hsl(120, 70, 60), Hex(255, 204, 0)>>

\* the stop lists of n stops: any positions in any order, ids 1..n
StopLists(n) ==
  {[k \in 1..n |-> [id |-> k, position |-> ps[k], color |-> StopColors[k]]] :
     ps \in [1..n -> StopPositions]}

\* no evaluation of the shader is running
ShaderOff ==
  /\ fc = Pixel(0, 0)
  /\ un = Uniforms(0, 800, 600, Q(5, 100), SCALE, DefaultRange, Red, Blue)
  /\ nf = [k \in 1..NoiseCells |-> 0]
  /\ pc = "off"
  /\ Unassigned
  /\ evals = <<>>

InitGradient ==
  /\ ShaderOff
  /\ HookOff
  /\ hpc = "idle"
  /\ now = PageLoad
  /\ \E n \in 0..MaxStops : colorStops \in StopLists(n)
  /\ sortedStops = <<>>
  /\ currentStopIndex = 1
  /\ ti = 0
  /\ texel = NoTexel

NextGradient == GenerateGradientTextureData \/ WriteTexel \/ ReturnGradientData

SpecGradient == InitGradient /\ [][NextGradient]_vars

(***************************************************************************)
(* main() evaluated again and again: each evaluation starts with its       *)
(* locals as the one before left them and the uniforms of its own frame.   *)
(***************************************************************************)
MaxEvals == 2
RepeatPixels == {Pixel(0, 590), Pixel(100, 300)}
RepeatTimes == {0, 3 * SCALE}
RepeatFields == {[k \in 1..NoiseCells |-> IF k = j THEN SCALE ELSE -SCALE] : j \in 1..NoiseCells}

\* the next fragment, or the next frame, is evaluated
NextEvaluation ==
  /\ pc \in {"done", "sampled"}
  /\ Len(evals) < MaxEvals
  /\ evals' = Append(evals, [fc |-> fc, un |-> un, via |-> pc, color |-> gl_FragColor])
  /\ fc' \in RepeatPixels
  /\ \E time \in RepeatTimes :
       un' = Uniforms(time, 800, 600, Q(30, 100), SCALE, DefaultRange, Red, Blue)
  /\ pc' = "bg"
  /\ UNCHANGED <<host, nf, cur, bg_lightness, w1_lightness, w2_lightness, dist,
                 blur_in, blur_fac, i, sum, nan, taps, w1_alpha, w2_alpha,
                 lightness, gl_FragColor>>

InitRepeat ==
  /\ HostIdle
  /\ evals = <<>>
  /\ fc \in RepeatPixels
  /\ \E time \in RepeatTimes :
       un = Uniforms(time, 800, 600, Q(30, 100), SCALE, DefaultRange, Red, Blue)
  /\ nf \in RepeatFields
  /\ pc = "bg"
  /\ Unassigned

NextRepeat == Next \/ NextEvaluation

SpecRepeat == InitRepeat /\ [][NextRepeat]_vars

(***************************************************************************)
(* The colour-stop operations of useGradientState, as the controls of the  *)
(* gradient panel call them.  Date.now() is the clock `now`, which several *)
(* calls can read within the same millisecond.                             *)
(***************************************************************************)
MaxTicks == 2

\* time passes between two events
Tick ==
  /\ now < PageLoad + MaxTicks
  /\ now' = now + 1
  /\ UNCHANGED <<shader, others, hpc, colorStops, gradient, hook>>

\* setColorStops and the setters of the parameters schedule a re-render,
\* unless the state they are given is the state there is
Scheduled(what) == dirty' = dirty \cup what

HookRest == <<glRef, startTime, loop, rafQueue, rafNext, animationFrameId, frames,
              mounted, gradientTexture>>

\* prevStops.map(stop => stop.id === id ? {...stop, [field]: value} : stop)
MapStops(prevStops, id, field, value) ==
  [k \in 1..Len(prevStops) |->
     IF prevStops[k].id = id THEN [prevStops[k] EXCEPT ![field] = value]
     ELSE prevStops[k]]

SliderPositions == {0, SCALE}

\* GradientStopControl: the position slider of stop k, shown for the
\* interior stops only
HandlePositionChange(k, value) ==
  /\ mounted = "yes"
  /\ 1 < k /\ k < Len(colorStops)
  /\ colorStops' = MapStops(colorStops, colorStops[k].id, "position", value)
  /\ Scheduled({"colorStops"})
  /\ UNCHANGED <<shader, others, hpc, now, gradient, parameters, parameterRefs, uniforms, HookRest>>

\* GradientStopControl: the colour input of stop k
HandleColorChange(k, value) ==
  /\ mounted = "yes"
  /\ k \in 1..Len(colorStops)
  /\ colorStops' = MapStops(colorStops, colorStops[k].id, "color", value)
  /\ Scheduled({"colorStops"})
  /\ UNCHANGED <<shader, others, hpc, now, gradient, parameters, parameterRefs, uniforms, HookRest>>

\* the middle of the first largest gap between sorted positions
RECURSIVE GapPos(_, _, _, _)
GapPos(positions, k, maxGap, gapPos) ==
  IF k > Len(positions) - 1 THEN gapPos
  ELSE LET gap == positions[k + 1] - positions[k]
       IN IF gap > maxGap
            THEN GapPos(positions, k + 1, gap, positions[k] + gap \div 2)
            ELSE GapPos(positions, k + 1, maxGap, gapPos)

NewPosition(prevStops) ==
  LET sorted == SortByPosition(prevStops)
      positions == [k \in 1..Len(sorted) |-> sorted[k].position]
  IN IF Len(positions) >= 2 THEN GapPos(positions, 1, 0, Q(1, 2)) ELSE Q(1, 2)

\* addColorStop: the new stop takes Date.now() as its id
AddedStops(prevStops, clock, hue) ==
  SortByPosition(Append(prevStops,
    [id |-> clock, position |-> NewPosition(prevStops), color |-> Hsl(hue, 70, 60)]))

AddColorStop ==
  /\ mounted = "yes"
  /\ Len(colorStops) <= MaxStops
  /\ \E hue \in {120} : colorStops' = AddedStops(colorStops, now, hue)
  /\ Scheduled({"colorStops"})
  /\ UNCHANGED <<shader, others, hpc, now, gradient, parameters, parameterRefs, uniforms, HookRest>>

\* prevStops.filter(stop => stop.id !== id)
RECURSIVE FilterOut(_, _)
FilterOut(prevStops, id) ==
  IF prevStops = <<>> THEN <<>>
  ELSE LET rest == FilterOut(SubSeq(prevStops, 1, Len(prevStops) - 1), id)
           last == prevStops[Len(prevStops)]
       IN IF last.id # id THEN Append(rest, last) ELSE rest

RemovedStops(prevStops, id) ==
  IF Len(prevStops) <= 2 THEN prevStops ELSE FilterOut(prevStops, id)

\* GradientStopControl: the remove button of stop k, shown when canRemove
RemoveColorStop(k) ==
  /\ mounted = "yes"
  /\ Len(colorStops) > 2 /\ 1 < k /\ k < Len(colorStops)
  /\ colorStops' = RemovedStops(colorStops, colorStops[k].id)
  /\ Scheduled({"colorStops"})
  /\ UNCHANGED <<shader, others, hpc, now, gradient, parameters, parameterRefs, uniforms, HookRest>>

ResetColorStops ==
  /\ mounted = "yes"
  /\ colorStops' = DEFAULT_COLOR_STOPS
  /\ Scheduled(IF colorStops # DEFAULT_COLOR_STOPS THEN {"colorStops"} ELSE {})
  /\ UNCHANGED <<shader, others, hpc, now, gradient, parameters, parameterRefs, uniforms, HookRest>>

\* randomizeColorStops(3): position 0 first, 1 last, Math.random() between
randomizeColorStops(clock, random, color) ==
  SortByPosition(
    [k \in 1..3 |->
       [id |-> clock + (k - 1),
        position |-> IF k = 1 THEN 0 ELSE IF k = 3 THEN SCALE ELSE random,
        color |-> color]])

\* the values Math.random() takes here: it can be 0 and is never 1
Randoms == {0, Q(1, 2)}

\* randomInRange without subtracting min from the span
randomInRange_span(c, r) == c.min + Mul(r, c.max)

\* randomInRange: min + Math.random() * (max - min)
randomInRange(c, r) == c.min + Mul(r, c.max - c.min)

\* randomizeParameters(), r[f] the value of Math.random() drawn for f
randomizeParameters(r) ==
  [f \in DOMAIN PARAMETER_CONSTRAINTS |->
     CASE f = "speed" -> Q(1, 2) + Mul(r[f], Q(15, 10))
       [] f = "waveFreqX" -> 3 * SCALE + Mul(r[f], 5 * SCALE)
       [] f = "waveFreqY" -> 2 * SCALE + Mul(r[f], 4 * SCALE)
       [] f \in {"waveAmpX", "waveAmpY"} -> Q(8, 100) + Mul(r[f], Q(12, 100))
       [] OTHER -> randomInRange(PARAMETER_CONSTRAINTS[f], r[f])]

\* the draws of Math.random(): b for blurSharpnessMax, a for the others
Draw(a, b) ==
  [f \in DOMAIN PARAMETER_CONSTRAINTS |-> IF f = "blurSharpnessMax" THEN b ELSE a]

\* Math.random() is 0 at least and below 1
Draws == {Draw(a, b) : a, b \in {0, Q(1, 2), SCALE - 1}}

(***************************************************************************)
(* useWebGLGradient: its effects and its render loop.  The effects and     *)
(* render() are functions of the hook's state h; an action runs the        *)
(* effects of one commit in the order React runs them.                     *)
(***************************************************************************)
MaxFrames == 3

Hook ==
  [parameterRefs |-> parameterRefs, glRef |-> glRef, uniforms |-> uniforms,
   startTime |-> startTime, loop |-> loop, rafQueue |-> rafQueue, rafNext |-> rafNext,
   animationFrameId |-> animationFrameId, frames |-> frames,
   gradientTexture |-> gradientTexture]

SetHook(h) ==
  /\ parameterRefs' = h.parameterRefs
  /\ glRef' = h.glRef
  /\ uniforms' = h.uniforms
  /\ startTime' = h.startTime
  /\ loop' = h.loop
  /\ rafQueue' = h.rafQueue
  /\ rafNext' = h.rafNext
  /\ animationFrameId' = h.animationFrameId
  /\ frames' = h.frames
  /\ gradientTexture' = h.gradientTexture

\* what the application state is when a frame is drawn
App == [parameters |-> parameters, synced |-> "parameters" \notin dirty]

\* gl.uniform1f(u_speed, ...), gl.uniform2f(u_waveFreq, ...), gl.uniform2f(u_waveAmp, ...)
UploadParameters(h) ==
  [h EXCEPT !.uniforms = [@ EXCEPT !.u_speed = h.parameterRefs.speed,
                                   !.u_waveFreq = h.parameterRefs.waveFreqX,
                                   !.u_waveAmp = h.parameterRefs.waveAmpX]]

\* render, the callback cb of the loop started at cb.startTime: u_time, the
\* draw call and the request of the next frame
render(h, cb, clock, app) ==
  IF h.glRef # "program" THEN h
  ELSE LET u == [h.uniforms EXCEPT !.u_time = (clock - cb.startTime) * (SCALE \div 1000)]
       IN [h EXCEPT
             !.uniforms = u,
             !.frames = <<[loop |-> cb.loop, live |-> h.loop,
                           uniforms |-> u, app |-> app]>>,
             !.rafQueue = @ \cup {[id |-> h.rafNext, loop |-> cb.loop,
                                   startTime |-> cb.startTime]},
             !.animationFrameId = h.rafNext,
             !.rafNext = @ + 1]

\* the cleanup without cancelAnimationFrame
cleanup_nocancel(h) ==
  [h EXCEPT !.glRef = "null", !.gradientTexture = <<>>, !.uniforms = NoUniforms]

\* the cleanup of the initialising effect
cleanup(h) ==
  [h EXCEPT
     !.rafQueue = IF h.animationFrameId # 0
                    THEN {cb \in @ : cb.id # h.animationFrameId} ELSE @,
     !.glRef = "null", !.gradientTexture = <<>>, !.uniforms = NoUniforms]

\* the initialising effect with the loop started before the checks
initEffect_loopfirst(h, ok, clock, stops, app) ==
  LET h1 == UploadParameters(
              [h EXCEPT !.glRef = "program",
                        !.gradientTexture = SortedWithBoundaryStops(stops, clock),
                        !.uniforms = NoUniforms,
                        !.startTime = clock,
                        !.loop = @ + 1])
      h2 == render(h1, [id |-> 0, loop |-> h1.loop, startTime |-> clock], clock, app)
  IN IF ok = "ok" THEN h2
     ELSE [h2 EXCEPT !.glRef = IF ok = "nocontext" THEN "null" ELSE "gl",
                     !.gradientTexture = <<>>, !.uniforms = NoUniforms]

\* the initialising effect: context, program, textures, the parameter
\* uniforms, then render().  It returns early, with no cleanup, when there
\* is no context (ok = "nocontext") and, glRef set, when a shader or the
\* program cannot be created, compiled or linked (ok = "noprogram")
initEffect(h, ok, clock, stops, app) ==
  IF ok = "nocontext" THEN h
  ELSE IF ok = "noprogram" THEN [h EXCEPT !.glRef = "gl"]
  ELSE LET h1 == UploadParameters(
                   [h EXCEPT !.glRef = "program",
                             !.gradientTexture = SortedWithBoundaryStops(stops, clock),
                             !.uniforms = NoUniforms,
                             !.startTime = clock,
                             !.loop = @ + 1])
       IN render(h1, [id |-> 0, loop |-> h1.loop, startTime |-> clock], clock, app)

InitOutcomes == {"nocontext", "noprogram", "ok"}

\* the effect "update animation parameters", whose dependencies are the refs
updateParameters(h) == IF h.glRef = "program" THEN UploadParameters(h) ELSE h

\* the effect "update gradient texture when color stops change"
updateTexture(h, stops, clock) ==
  IF h.glRef = "program"
    THEN [h EXCEPT !.gradientTexture = SortedWithBoundaryStops(stops, clock)]
  ELSE h

\* useGradientState: the effect copying the parameters into their refs
refSync(h, params) == [h EXCEPT !.parameterRefs = params]

\* randomize(): new values written to the refs and uploaded
randomize(h, refs) ==
  updateParameters(
    [h EXCEPT !.parameterRefs =
       [f \in DOMAIN @ |-> IF f \in DOMAIN refs THEN refs[f] ELSE @[f]]])

\* the first commit of App: every effect runs, in the order of the hooks
Mount ==
  /\ mounted = "no"
  /\ mounted' = "yes"
  /\ \E ok \in InitOutcomes :
       SetHook(updateTexture(updateParameters(
                 initEffect(refSync(Hook, parameters), ok, now, colorStops,
                            [parameters |-> parameters, synced |-> TRUE])),
               colorStops, now))
  /\ dirty' = {}
  /\ UNCHANGED <<shader, others, hpc, now, colorStops, gradient, parameters>>

\* a commit after a change of state: the cleanup of the effects whose
\* dependencies changed (the initialising effect has one when it did not
\* return early), then these effects, in the order of the hooks
Commit ==
  /\ mounted = "yes"
  /\ dirty # {}
  /\ rafNext <= MaxFrames
  /\ \E ok \in InitOutcomes :
       LET stops == "colorStops" \in dirty
           h1 == IF stops /\ glRef = "program" THEN cleanup(Hook) ELSE Hook
           h2 == IF "parameters" \in dirty THEN refSync(h1, parameters) ELSE h1
           h3 == IF stops
                   THEN initEffect(h2, ok, now, colorStops,
                                   [parameters |-> parameters, synced |-> TRUE])
                   ELSE h2
           h4 == IF stops THEN updateTexture(h3, colorStops, now) ELSE h3
       IN /\ (~stops => ok = "ok")
          /\ SetHook(h4)
  /\ dirty' = {}
  /\ UNCHANGED <<shader, others, hpc, now, colorStops, gradient, parameters, mounted>>

\* the browser runs a requested animation frame callback
Render ==
  /\ rafNext <= MaxFrames
  /\ \E cb \in rafQueue :
       SetHook(render([Hook EXCEPT !.rafQueue = @ \ {cb}], cb, now, App))
  /\ UNCHANGED <<shader, others, hpc, now, colorStops, gradient, parameters, dirty, mounted>>

\* App is unmounted: the cleanup runs
Unmount ==
  /\ mounted = "yes"
  /\ mounted' = "gone"
  /\ SetHook(IF glRef = "program" THEN cleanup(Hook) ELSE Hook)
  /\ UNCHANGED <<shader, others, hpc, now, colorStops, gradient, parameters, dirty>>

\* handleSpeedChange, handleWaveFreqXChange, handleWaveAmpXChange
HandleParameterChange(field, value) ==
  /\ mounted = "yes"
  /\ parameters' = [parameters EXCEPT ![field] = value]
  /\ Scheduled(IF parameters[field] # value THEN {"parameters"} ELSE {})
  /\ UNCHANGED <<shader, others, hpc, now, colorStops, gradient, parameterRefs, uniforms, HookRest>>

\* randomize(): the values it draws for the refs
RandomRefs ==
  {[speed |-> 2 * SCALE, waveFreqX |-> 8 * SCALE, waveFreqY |-> 6 * SCALE,
    waveAmpX |-> Q(2, 10), waveAmpY |-> Q(2, 10)]}

\* ControlsSheet: handleRandomize, randomizeAllParameters() then randomize()
HandleRandomize(draws) ==
  /\ mounted = "yes"
  /\ \E r \in draws : parameters' = randomizeParameters(r)
  /\ \E random \in Randoms, color \in {Hex(230, 77, 77)} :
       colorStops' = randomizeColorStops(now, random, color)
  /\ Scheduled(IF parameters' # parameters THEN {"parameters", "colorStops"}
               ELSE {"colorStops"})
  /\ \E refs \in RandomRefs : SetHook(randomize(Hook, refs))
  /\ UNCHANGED <<shader, others, hpc, now, gradient, mounted>>

\* the hook once App is mounted at page load, the loop running
MountedHook ==
  LET h0 == [parameterRefs |-> DEFAULT_PARAMETERS, glRef |-> "null",
             uniforms |-> NoUniforms, startTime |-> 0, loop |-> 0, rafQueue |-> {},
             rafNext |-> 1, animationFrameId |-> 0, frames |-> <<>>,
             gradientTexture |-> <<>>]
  IN updateTexture(updateParameters(
       initEffect(refSync(h0, DEFAULT_PARAMETERS), "ok", PageLoad, DEFAULT_COLOR_STOPS,
                  [parameters |-> DEFAULT_PARAMETERS, synced |-> TRUE])),
       DEFAULT_COLOR_STOPS, PageLoad)

InitStops ==
  /\ ShaderOff
  /\ OthersOff
  /\ hpc = "idle"
  /\ now = PageLoad
  /\ colorStops = DEFAULT_COLOR_STOPS
  /\ sortedStops = <<>>
  /\ currentStopIndex = 1
  /\ ti = 0
  /\ texel = NoTexel
  /\ parameters = DEFAULT_PARAMETERS
  /\ dirty = {}
  /\ mounted = "yes"
  /\ parameterRefs = MountedHook.parameterRefs
  /\ glRef = MountedHook.glRef
  /\ uniforms = MountedHook.uniforms
  /\ startTime = MountedHook.startTime
  /\ loop = MountedHook.loop
  /\ rafQueue = MountedHook.rafQueue
  /\ rafNext = MountedHook.rafNext
  /\ animationFrameId = MountedHook.animationFrameId
  /\ frames = MountedHook.frames
  /\ gradientTexture = MountedHook.gradientTexture

NextStops ==
  \/ Tick
  \/ \E k \in 1..(MaxStops + 1), value \in SliderPositions : HandlePositionChange(k, value)
  \/ AddColorStop
  \/ \E k \in 1..(MaxStops + 1) : RemoveColorStop(k)
  \/ ResetColorStops
  \/ HandleRandomize({Draw(0, 0)})

SpecStops == InitStops /\ [][NextStops]_vars

SpeedValues == {3 * SCALE}

InitHost ==
  /\ ShaderOff
  /\ HostIdle

NextHost ==
  \/ Tick
  \/ Mount
  \/ Commit
  \/ Render
  \/ Unmount
  \/ \E value \in SpeedValues : HandleParameterChange("speed", value)
  \/ HandleColorChange(1, Hex(0, 170, 255))
  \/ HandleRandomize({Draw(0, 0)})

SpecHost == InitHost /\ [][NextHost]_vars

(***************************************************************************)
(* The parameter store of useGradientState: sliders, resets, randomize.    *)
(***************************************************************************)
\* the resets, resetBlurParameters leaving blurSharpnessMax as it is
resetAllParameters_keepmax(p) ==
  [p EXCEPT !.speed = DEFAULT_PARAMETERS.speed,
            !.waveFreqX = DEFAULT_PARAMETERS.waveFreqX,
            !.waveFreqY = DEFAULT_PARAMETERS.waveFreqY,
            !.waveAmpX = DEFAULT_PARAMETERS.waveAmpX,
            !.waveAmpY = DEFAULT_PARAMETERS.waveAmpY,
            !.noiseScale = DEFAULT_PARAMETERS.noiseScale,
            !.noiseVerticalStretch = DEFAULT_PARAMETERS.noiseVerticalStretch,
            !.noiseSwirlSpeed = DEFAULT_PARAMETERS.noiseSwirlSpeed,
            !.noiseFlowSpeed = DEFAULT_PARAMETERS.noiseFlowSpeed,
            !.blurAmount = DEFAULT_PARAMETERS.blurAmount,
            !.blurSharpnessMin = DEFAULT_PARAMETERS.blurSharpnessMin,
            !.blurNoiseScale = DEFAULT_PARAMETERS.blurNoiseScale,
            !.blurNoiseSpeed = DEFAULT_PARAMETERS.blurNoiseSpeed,
            !.blurPulsingSpeed = DEFAULT_PARAMETERS.blurPulsingSpeed]

\* resetBaseParameters, resetNoiseParameters and resetBlurParameters, as
\* resetAllParameters calls them, setter by setter
resetAllParameters(p) ==
  [p EXCEPT !.speed = DEFAULT_PARAMETERS.speed,
            !.waveFreqX = DEFAULT_PARAMETERS.waveFreqX,
            !.waveFreqY = DEFAULT_PARAMETERS.waveFreqY,
            !.waveAmpX = DEFAULT_PARAMETERS.waveAmpX,
            !.waveAmpY = DEFAULT_PARAMETERS.waveAmpY,
            !.noiseScale = DEFAULT_PARAMETERS.noiseScale,
            !.noiseVerticalStretch = DEFAULT_PARAMETERS.noiseVerticalStretch,
            !.noiseSwirlSpeed = DEFAULT_PARAMETERS.noiseSwirlSpeed,
            !.noiseFlowSpeed = DEFAULT_PARAMETERS.noiseFlowSpeed,
            !.blurAmount = DEFAULT_PARAMETERS.blurAmount,
            !.blurSharpnessMin = DEFAULT_PARAMETERS.blurSharpnessMin,
            !.blurSharpnessMax = DEFAULT_PARAMETERS.blurSharpnessMax,
            !.blurNoiseScale = DEFAULT_PARAMETERS.blurNoiseScale,
            !.blurNoiseSpeed = DEFAULT_PARAMETERS.blurNoiseSpeed,
            !.blurPulsingSpeed = DEFAULT_PARAMETERS.blurPulsingSpeed]

\* resetAllParameters, resetColorStops() its last call
ResetAllParameters ==
  /\ mounted = "yes"
  /\ parameters' = resetAllParameters(parameters)
  /\ colorStops' = DEFAULT_COLOR_STOPS
  /\ Scheduled((IF parameters' # parameters THEN {"parameters"} ELSE {})
               \cup (IF colorStops # DEFAULT_COLOR_STOPS THEN {"colorStops"} ELSE {}))
  /\ UNCHANGED <<shader, others, hpc, now, gradient, parameterRefs, uniforms, HookRest>>

\* the sliders moved to an end of their range
NextStore ==
  \/ \E f \in {"speed", "blurSharpnessMin", "blurSharpnessMax"} :
       \E value \in {PARAMETER_CONSTRAINTS[f].min, PARAMETER_CONSTRAINTS[f].max} :
         HandleParameterChange(f, value)
  \/ ResetAllParameters
  \/ HandleRandomize(Draws)
  \/ AddColorStop
  \/ \E k \in 1..(MaxStops + 1) : RemoveColorStop(k)

SpecStore == InitStops /\ [][NextStore]_vars

(***************************************************************************)
(* The hook that renders through a framebuffer (the variant of             *)
(* useWebGLGradient with background, noise and wave textures).  A GL       *)
(* object is a pair <<kind, n>>, n the run of the initialising effect that *)
(* created it; fboHook.alive holds the objects created and not deleted.    *)
(* The refs of one successful run are set together, so programRef and      *)
(* textureRefs hold the number of the run they point into (0: null).       *)
(***************************************************************************)
MaxInits == 3
MaxTimeouts == 2

TextureKinds ==
  {"gradientTexture", "backgroundTexture", "noiseTexture", "waveTexture",
   "waveDisplacementTexture"}

\* what the cleanup deletes: the framebuffer, the render texture, the textures
CleanedKinds == TextureKinds \cup {"frameBuffer", "renderTexture"}

Objects(kinds, n) == {<<k, n>> : k \in kinds}

\* bindTextures(gl): the five texture refs are bound to their units
bindTextures(f) ==
  LET bound == IF f.textureRefs = 0 THEN {} ELSE Objects(TextureKinds, f.textureRefs)
  IN  [f EXCEPT !.deadTouched = @ \cup (bound \ f.alive)]

\* regenerateTextures(gl): the background, noise, wave and displacement
\* textures are bound and written, then all five are bound
regenerateTextures(f) ==
  IF ~f.glRef THEN f
  ELSE LET written == IF f.textureRefs = 0 THEN {}
                      ELSE Objects(TextureKinds \ {"gradientTexture"}, f.textureRefs)
       IN  bindTextures([f EXCEPT !.deadTouched = @ \cup (written \ f.alive)])

\* u_speed, u_waveFreq and u_waveAmp set from the refs
fboUpload(f, refs) ==
  IF f.glRef /\ f.programRef # 0
    THEN [f EXCEPT !.uniforms = <<refs.speed, refs.waveFreqX, refs.waveFreqY,
                                  refs.waveAmpX, refs.waveAmpY>>]
    ELSE f

\* render(): one frame through the framebuffer, and the request for the next
fboRender(f) ==
  IF ~f.glRef \/ f.programRef = 0 THEN [f EXCEPT !.raf = FALSE]
  ELSE [bindTextures(f) EXCEPT !.raf = TRUE]

\* the cleanup the initialising effect returns
fboCleanup(f) ==
  [f EXCEPT !.raf = FALSE,
            !.alive = @ \ Objects(CleanedKinds, f.textureRefs),
            !.hasCleanup = FALSE]

\* the initialising effect; n is the number of this run
fboInit(f, ok, refs) ==
  LET n == f.inits + 1
      g == [f EXCEPT !.inits = n, !.hasCleanup = FALSE]
  IN  CASE ok = "nocontext" -> g
        [] ok = "noprogram" ->
             \* both shaders compiled; createProgram deletes the program
             [g EXCEPT !.glRef = TRUE,
                       !.alive = @ \cup Objects({"vertexShader", "fragmentShader"}, n)]
        [] OTHER ->
             fboRender(fboUpload(bindTextures(
               [g EXCEPT !.glRef = TRUE, !.programRef = n, !.textureRefs = n,
                         !.hasCleanup = TRUE,
                         !.alive = @ \cup Objects(CleanedKinds \cup
                                      {"vertexShader", "fragmentShader", "program",
                                       "positionBuffer"}, n)]), refs))

\* the first commit of the component
FboMount ==
  /\ mounted = "no"
  /\ mounted' = "yes"
  /\ \E ok \in InitOutcomes : fboHook' = fboInit(fboHook, ok, parameterRefs)
  /\ dirty' = {}
  /\ UNCHANGED <<shader, layered, inline, hpc, now, colorStops, gradient, parameters,
                 parameterRefs, glRef, uniforms, startTime, loop, rafQueue, rafNext,
                 animationFrameId, frames, gradientTexture>>

\* a commit after the colour stops changed: they are a dependency of the
\* initialising effect, whose cleanup runs before it runs again
FboCommit ==
  /\ mounted = "yes"
  /\ "colorStops" \in dirty
  /\ fboHook.inits < MaxInits
  /\ dirty' = {}
  /\ \E ok \in InitOutcomes :
       fboHook' = fboInit(IF fboHook.hasCleanup THEN fboCleanup(fboHook) ELSE fboHook, ok,
                         parameterRefs)
  /\ UNCHANGED <<shader, layered, inline, hpc, now, colorStops, gradient, parameters,
                 parameterRefs, uniforms, HookRest>>

FboUnmount ==
  /\ mounted = "yes"
  /\ mounted' = "gone"
  /\ fboHook' = IF fboHook.hasCleanup THEN fboCleanup(fboHook) ELSE fboHook
  /\ UNCHANGED <<shader, layered, inline, hpc, now, colorStops, gradient, parameters,
                 parameterRefs, dirty, glRef, uniforms, startTime, loop, rafQueue,
                 rafNext, animationFrameId, frames, gradientTexture>>

\* a frame of the render loop
FboFrame ==
  /\ fboHook.raf
  /\ fboHook' = fboRender(fboHook)
  /\ UNCHANGED <<shader, layered, inline, hpc, now, colorStops, gradient, hook>>

\* randomize(): the refs are written at once, the textures are regenerated
\* and the uniforms uploaded by a callback setTimeout runs 10 ms later
FboRandomize ==
  /\ mounted = "yes"
  /\ fboHook.timeouts < MaxTimeouts
  /\ \E refs \in RandomRefs :
       parameterRefs' = [f \in DOMAIN parameterRefs |->
                           IF f \in DOMAIN refs THEN refs[f] ELSE parameterRefs[f]]
  /\ fboHook' = [fboHook EXCEPT !.timeouts = @ + 1]
  /\ UNCHANGED <<shader, layered, inline, hpc, now, colorStops, gradient, parameters,
                 dirty, uniforms, HookRest>>

\* the callback of randomize()'s setTimeout
FboTimeout ==
  /\ fboHook.timeouts > 0
  /\ fboHook' = [fboUpload(regenerateTextures(fboHook), parameterRefs)
                   EXCEPT !.timeouts = @ - 1]
  /\ UNCHANGED <<shader, layered, inline, hpc, now, colorStops, gradient, hook>>

FboColors == {Hex(0, 170, 255), Hex(255, 0, 0)}

NextFbo ==
  \/ FboMount
  \/ \E c \in FboColors : HandleColorChange(1, c)
  \/ FboCommit
  \/ FboFrame
  \/ FboRandomize
  \/ FboTimeout
  \/ FboUnmount

SpecFbo == InitHost /\ [][NextFbo]_vars

(***************************************************************************)
(* useLayeredTextureGradient and the LayeredTextureRenderer its effect     *)
(* creates, starts and disposes.  The canvas has one dimension here, its   *)
(* width, with a device pixel ratio of 1; lateCalls collects the WebGL     *)
(* calls the renderer makes after dispose() returned.                      *)
(***************************************************************************)
DisplaySizes == {300, 600, 900}

\* window.devicePixelRatio
PixelRatios == {1, 2}

\* a WebGL call of the renderer
glCalls(r, names) ==
  IF r.renderer = "disposed" THEN [r EXCEPT !.lateCalls = @ \cup names] ELSE r

\* the drawing width for a display width: scaled by min(dpr, 1.5) with
\* adaptive resolution (the device is not a mobile one)
DrawingSize(r) ==
  IF r.adaptiveResolution
    THEN (r.display * (IF 2 * r.dpr < 3 THEN 2 * r.dpr ELSE 3)) \div 2
    ELSE r.display

handleCanvasResize(r) ==
  IF ~r.gl \/ r.canvas = r.display THEN r
  ELSE glCalls([r EXCEPT !.canvas = DrawingSize(r)],
               {"viewport", "bindBuffer", "bufferData"})

\* new LayeredTextureRenderer(canvas): setupWebGL
setupWebGL(r, ok) ==
  CASE ok = "nocontext" -> [r EXCEPT !.renderer = "live"]
    [] ok = "noprogram" -> [r EXCEPT !.renderer = "live", !.gl = TRUE]
    [] OTHER ->
         [r EXCEPT !.renderer = "live", !.gl = TRUE, !.program = TRUE,
                   !.observed = TRUE,
                   !.alive = @ \cup {"program", "positionBuffer", "texCoordBuffer"}]

initializeDefaultLayers(r) ==
  IF ~r.gl THEN r
  ELSE [r EXCEPT !.layers = 2, !.alive = @ \cup {"baseTexture", "secondTexture"}]

\* render(time)
layeredRender(r) ==
  IF ~r.gl \/ ~r.program THEN r
  ELSE glCalls([r EXCEPT !.frames = @ + 1],
               {"clear", "useProgram", "bindBuffer", "bindTexture", "drawArrays"})

animate(r) == [layeredRender(r) EXCEPT !.animationFrame = TRUE]

\* start(): a pending frame is cancelled, then animate()
start(r) == animate([r EXCEPT !.animationFrame = FALSE])

stop(r) == [r EXCEPT !.animationFrame = FALSE]

\* dispose(): stop(), then the textures, the buffers and the program deleted
dispose(r) ==
  IF ~r.gl THEN [stop(r) EXCEPT !.renderer = "disposed"]
  ELSE [stop(r) EXCEPT !.renderer = "disposed", !.alive = {}, !.layers = 0]

\* setAdaptiveResolution(enable), which resizes at once
setAdaptiveResolution(r, enable) ==
  handleCanvasResize([r EXCEPT !.adaptiveResolution = enable])

\* the effect of useLayeredTextureGradient at the first commit
LayeredMount ==
  /\ mounted = "no"
  /\ mounted' = "yes"
  /\ \E ok \in InitOutcomes, enable \in BOOLEAN, ratio \in PixelRatios :
       layered' = start(setAdaptiveResolution(
                          initializeDefaultLayers(
                            setupWebGL([layered EXCEPT !.dpr = ratio], ok)),
                          enable))
  /\ UNCHANGED <<shader, fboHook, inline, hpc, now, colorStops, gradient, parameters,
                 parameterRefs, dirty, glRef, uniforms, startTime, loop, rafQueue,
                 rafNext, animationFrameId, frames, gradientTexture>>

\* the callback of requestAnimationFrame
LayeredFrame ==
  /\ layered.animationFrame
  /\ layered.frames < MaxFrames
  /\ layered' = animate(layered)
  /\ UNCHANGED <<shader, fboHook, inline, hpc, now, colorStops, gradient, hook>>

\* the box of the canvas element changes (to nothing once the component is
\* unmounted and the element detached) and the ResizeObserver, if it still
\* observes the element, calls handleCanvasResize
LayeredResize(size) ==
  /\ mounted # "no"
  /\ size # layered.display
  /\ (mounted = "gone") = (size = 0)
  /\ layered' = IF layered.observed
                  THEN handleCanvasResize([layered EXCEPT !.display = size])
                  ELSE [layered EXCEPT !.display = size]
  /\ UNCHANGED <<shader, fboHook, inline, hpc, now, colorStops, gradient, hook>>

\* the cleanup of the effect: renderer.dispose(), rendererRef.current = null
LayeredUnmount ==
  /\ mounted = "yes"
  /\ mounted' = "gone"
  /\ layered' = dispose(layered)
  /\ UNCHANGED <<shader, fboHook, inline, hpc, now, colorStops, gradient, parameters,
                 parameterRefs, dirty, glRef, uniforms, startTime, loop, rafQueue,
                 rafNext, animationFrameId, frames, gradientTexture>>

NextLayered ==
  \/ LayeredMount
  \/ LayeredFrame
  \/ \E size \in DisplaySizes \cup {0} : LayeredResize(size)
  \/ LayeredUnmount

SpecLayered == InitHost /\ [][NextLayered]_vars

(***************************************************************************)
(* The App component that drives WebGL inline: one effect that compiles,   *)
(* links, starts a render loop and returns a cleanup, re-run whenever a    *)
(* control value changes.  A GL object is <<kind, n>>, n the run of the    *)
(* effect that created it; a render loop is the run that started it.       *)
(***************************************************************************)
InlineSpeeds == {SCALE, 2 * SCALE}

InlineKinds == {"vertexShader", "fragmentShader", "program", "positionBuffer"}

\* render() of run n: uniforms, clear, drawArrays, requestAnimationFrame
inlineRender(a, n) ==
  [a EXCEPT !.draws = @ + 1,
            !.loops = @ \cup {n},
            !.deadDraws = IF <<"program", n>> \in a.alive THEN @ ELSE @ \cup {n}]

\* the effect; n is the number of this run
inlineEffect(a, ok) ==
  LET n == a.effects + 1
      b == [a EXCEPT !.effects = n, !.effectSpeed = a.speed, !.cleanupOf = 0]
  IN  CASE ok = "nocontext" -> b
        [] ok = "noprogram" ->
             [b EXCEPT !.alive = @ \cup Objects(InlineKinds \ {"positionBuffer"}, n)]
        [] OTHER ->
             inlineRender([b EXCEPT !.alive = @ \cup Objects(InlineKinds, n),
                                    !.observed = @ \cup {n},
                                    !.cleanupOf = n], n)

\* the cleanup the effect returns
inlineCleanup(a) ==
  IF a.cleanupOf = 0 THEN a
  ELSE [a EXCEPT !.observed = @ \ {a.cleanupOf},
                 !.alive = @ \ Objects(InlineKinds, a.cleanupOf),
                 !.cleanupOf = 0]

InlineMount ==
  /\ mounted = "no"
  /\ mounted' = "yes"
  /\ \E ok \in InitOutcomes : inline' = inlineEffect(inline, ok)
  /\ UNCHANGED <<shader, fboHook, layered, hpc, now, colorStops, gradient, parameters,
                 parameterRefs, dirty, glRef, uniforms, startTime, loop, rafQueue,
                 rafNext, animationFrameId, frames, gradientTexture>>

\* handleSpeedChange: setSpeed(value[0])
InlineSpeedChange(value) ==
  /\ mounted = "yes"
  /\ value # inline.speed
  /\ inline' = [inline EXCEPT !.speed = value]
  /\ UNCHANGED <<shader, fboHook, layered, hpc, now, colorStops, gradient, hook>>

\* the commit after a control changed: the cleanup, then the effect again
InlineCommit ==
  /\ mounted = "yes"
  /\ inline.speed # inline.effectSpeed
  /\ inline.effects < MaxInits
  /\ \E ok \in InitOutcomes : inline' = inlineEffect(inlineCleanup(inline), ok)
  /\ UNCHANGED <<shader, fboHook, layered, hpc, now, colorStops, gradient, hook>>

\* the callback of requestAnimationFrame of the loop run n started
InlineFrame(n) ==
  /\ n \in inline.loops
  /\ inline.draws < MaxFrames
  /\ inline' = inlineRender(inline, n)
  /\ UNCHANGED <<shader, fboHook, layered, hpc, now, colorStops, gradient, hook>>

InlineUnmount ==
  /\ mounted = "yes"
  /\ mounted' = "gone"
  /\ inline' = inlineCleanup(inline)
  /\ UNCHANGED <<shader, fboHook, layered, hpc, now, colorStops, gradient, parameters,
                 parameterRefs, dirty, glRef, uniforms, startTime, loop, rafQueue,
                 rafNext, animationFrameId, frames, gradientTexture>>

NextInline ==
  \/ InlineMount
  \/ \E v \in InlineSpeeds : InlineSpeedChange(v)
  \/ InlineCommit
  \/ \E n \in 1..MaxInits : InlineFrame(n)
  \/ InlineUnmount

SpecInline == InitHost /\ [][NextInline]_vars

(***************************************************************************)
(* The claims.                                                             *)
(***************************************************************************)
Composited == pc \in {"color", "done", "sampled"}

\* C1: whatever the background, wave-1 and wave-2 lightness and wave2_alpha
\* are, wave1_alpha = 1 makes the composited lightness wave 1's lightness
\* (so with both alphas 1 it is wave 1's, not wave 2's or the background's).
C1_Wave1OnTop ==
  (Composited /\ w1_alpha = SCALE) => lightness = w1_lightness

C1_Witness ==
  /\ pc = "color"
  /\ w1_alpha = SCALE /\ w2_alpha = SCALE
  /\ lightness = w1_lightness
  /\ w1_lightness # w2_lightness
  /\ w1_lightness # bg_lightness

\* C2: the composited lightness is wave 2 blended over the background by
\* wave2_alpha, then wave 1 blended over that by wave1_alpha; with both alphas
\* 0 it is the background, with wave1_alpha 0 and wave2_alpha 1 it is wave 2.
C2_BackToFront ==
  Composited =>
    /\ lightness = Mul(Mul(bg_lightness, SCALE - w2_alpha) + Mul(w2_lightness, w2_alpha),
                       SCALE - w1_alpha)
                   + Mul(w1_lightness, w1_alpha)
    /\ (w1_alpha = 0 /\ w2_alpha = 0) => lightness = bg_lightness
    /\ (w1_alpha = 0 /\ w2_alpha = SCALE) => lightness = w2_lightness

C2_Witness ==
  /\ pc = "color"
  /\ w1_alpha = 0 /\ w2_alpha = SCALE
  /\ lightness = w2_lightness
  /\ w2_lightness # bg_lightness
  /\ w2_lightness # w1_lightness

\* C7: calc_color gives any lightness the colour of that lightness clamped to
\* [0,1]: the first colour at or below 0, the last at or above 1, and every
\* component of the colour within [0,1]. The gradient texture lookup of the
\* production shader does the same through CLAMP_TO_EDGE, its first and last
\* colours being the ramp's end texels (the end colours to 8 bits).
C7_ClampedColour ==
  /\ pc = "done" =>
       /\ gl_FragColor = [k \in 1..3 |->
                            mix(un.u_color1[k], un.u_color2[k], Min(Max(lightness, 0), SCALE))]
       /\ lightness <= 0 => gl_FragColor = un.u_color1
       /\ lightness >= SCALE => gl_FragColor = un.u_color2
  /\ pc = "sampled" =>
       /\ gl_FragColor = texture2D(GradientStops(un), Min(Max(lightness, 0), SCALE))
       /\ lightness <= 0 =>
            /\ gl_FragColor = NormTexel(GradientStops(un), 0)
            /\ \A k \in 1..3 : gl_FragColor[k] - un.u_color1[k] \in -Q(1, 255)..Q(1, 255)
       /\ lightness >= SCALE =>
            /\ gl_FragColor = NormTexel(GradientStops(un), GradientWidth - 1)
            /\ \A k \in 1..3 : gl_FragColor[k] - un.u_color2[k] \in -Q(1, 255)..Q(1, 255)
  /\ pc \in {"done", "sampled"} =>
       \A k \in 1..3 : 0 <= gl_FragColor[k] /\ gl_FragColor[k] <= SCALE

C7_Witness ==
  /\ pc = "done"
  /\ lightness < 0
  /\ gl_FragColor = un.u_color1
  /\ un.u_color1 # un.u_color2

InRange(x) == 0 <= x /\ x <= SCALE

SamplesInRange == \A k \in 1..Len(taps) : ~taps[k].nan /\ InRange(taps[k].alpha)

C4_FloorBeforeScale ==
  \A k \in 1..Len(taps) :
    (CallerAmount(un.u_blurAmount) /\ PowDefined(taps[k].base, taps[k].exp)) =>
      /\ taps[k].floored >= Q(8, 1000)
      /\ taps[k].v = Mul(345 * un.u_blurAmount, taps[k].floored)
      /\ taps[k].v >= Mul(345 * Q(1, 10), Q(8, 1000))
      /\ taps[k].v > 0
      /\ taps[k].defined

C4_Witness ==
  /\ Len(taps) > 0
  /\ CallerAmount(un.u_blurAmount)
  /\ taps[1].base = 0 /\ taps[1].exp > 0
  /\ taps[1].floored = Q(8, 1000)
  /\ dist # 0

RECURSIVE WeightedSum(_)
WeightedSum(seq) ==
  IF seq = <<>> THEN 0 ELSE Mul(Head(seq).alpha, PART) + WeightedSum(Tail(seq))

LoopReturned == pc = "wave" /\ cur = 2

\* C8: wave_alpha calls wave_alpha_part exactly 7 times, the k-th call with
\* t = (k-1)/7 (never t = 1) and exponent lerp(min, max, t), stops after the
\* 7th, and returns the sum of the 7 results each weighted 1/7.
C8_SevenTaps ==
  /\ pc = "taps" => (i <= blurQuality /\ Len(taps) = i)
  /\ LoopReturned => (Len(taps) = blurQuality /\ w1_alpha = sum)
  /\ \A k \in 1..Len(taps) :
       /\ taps[k].t = (k - 1) * PART
       /\ taps[k].t < SCALE
       /\ taps[k].exp = Mul(un.u_blurSharpnessRange.x, SCALE - taps[k].t)
                        + Mul(un.u_blurSharpnessRange.y, taps[k].t)
  /\ sum = WeightedSum(taps)

C8_Witness ==
  /\ LoopReturned
  /\ Len(taps) = 7
  /\ ~nan
  /\ w1_alpha = sum
  /\ taps[1].alpha # taps[7].alpha

\* C6: calc_blur returns a value in [0,1] whatever its bias and its two noise
\* samples are, noise samples outside [-1,1] included.
C6_BlurInRange ==
  pc # "blur" => InRange(blur_fac)

C6_Witness ==
  /\ pc = "taps"
  /\ blur_in.n1 > SCALE
  /\ blur_in.bias + Mul(blur_in.n1, Q(5, 10)) + Mul(blur_in.n2, Q(4, 10)) > SCALE
  /\ blur_fac = SCALE

\* C5: every pow of wave_alpha_part gets as base the blur factor calc_blur
\* returned, which is in [0,1], so no pow has a negative base.
C5_PowBaseClamped ==
  /\ pc = "taps" => InRange(blur_fac)
  /\ \A k \in 1..Len(taps) :
       /\ taps[k].base = blur_fac
       /\ InRange(taps[k].base)
       /\ PowDefined(taps[k].base, taps[k].exp)

C5_Witness ==
  /\ pc = "taps"
  /\ Len(taps) > 0
  /\ blur_in.bias + Mul(blur_in.n1, Q(5, 10)) + Mul(blur_in.n2, Q(4, 10)) + SCALE < 0
  /\ taps[1].base = 0

AltFc(col) == [fc EXCEPT !.x = Pixel(col, 0).x]
AltUn(width) == [un EXCEPT !.u_resolution.x = width * SCALE]

\* the pixel column col of a viewport width wide has this pixel's logical x
SameLogicalX(col, width) ==
  Pixel(col, 0).x - (width * SCALE) \div 2 = fc.x - un.u_resolution.x \div 2

\* C9: the noise evaluations of main (the three background fields, the wave
\* boundary and the two blur octaves) have the values they have at any other
\* pixel column and viewport width with the same pixelX - width/2, all else
\* equal: their horizontal input is 900 + pixelX - width/2 only.
C9_LogicalX ==
  \A col \in FragCols, width \in Widths :
    SameLogicalX(col, width) =>
      /\ pc # "bg" =>
           /\ bg_lightness = background_noise(-Q(1924, 10), AltFc(col), AltUn(width), nf)
           /\ w1_lightness = background_noise(Q(2733, 10), AltFc(col), AltUn(width), nf)
           /\ w2_lightness = background_noise(Q(6231, 10), AltFc(col), AltUn(width), nf)
      /\ pc = "blur" =>
           /\ dist = WaveY(cur, un) - fc.y
                     + Mul(WaveHeight(cur, un),
                           wave_y_noise(WaveOffset(cur), AltFc(col), AltUn(width), nf))
           /\ blur_in.n1 = calc_blur_noise(WaveOffset(cur), AltFc(col), AltUn(width), nf).n1
           /\ blur_in.n2 = calc_blur_noise(WaveOffset(cur), AltFc(col), AltUn(width), nf).n2

\* a second viewport width shows the same field value at the same logical x
\* and another one at the same raw pixelX
C9_Witness ==
  /\ pc = "blur"
  /\ \E col \in FragCols, width \in Widths :
       /\ width * SCALE # un.u_resolution.x
       /\ SameLogicalX(col, width)
       /\ bg_lightness = background_noise(-Q(1924, 10), AltFc(col), AltUn(width), nf)
       /\ bg_lightness # background_noise(-Q(1924, 10), fc, AltUn(width), nf)

Scenario590 ==
  /\ un = Uniforms(0, 800, 600, Q(5, 100), SCALE, DefaultRange, Red, Blue)
  /\ fc.y = Pixel(0, 590).y

RECURSIVE CountAt(_, _)
CountAt(stops, p) ==
  IF stops = <<>> THEN 0
  ELSE (IF Head(stops).position = p THEN 1 ELSE 0) + CountAt(Tail(stops), p)

\* C11: for every stop list with positions in [0,1], the empty list and
\* single stops included, the sequence generateGradientTextureData
\* interpolates over has at least 2 stops, is sorted by position, starts at
\* position 0 and ends at position 1, a boundary stop being inserted exactly
\* where the list has none.
C11_BoundaryStops ==
  hpc = "texels" =>
    /\ Len(sortedStops) >= 2
    /\ \A k \in 1..(Len(sortedStops) - 1) :
         sortedStops[k].position <= sortedStops[k + 1].position
    /\ sortedStops[1].position = 0
    /\ sortedStops[Len(sortedStops)].position = SCALE
    /\ Len(sortedStops) = Len(colorStops)
                          + (IF CountAt(colorStops, 0) = 0 THEN 1 ELSE 0)
                          + (IF CountAt(colorStops, SCALE) = 0 THEN 1 ELSE 0)
    /\ \A p \in StopPositions :
         CountAt(sortedStops, p) >= CountAt(colorStops, p)

C11_Witness ==
  /\ hpc = "texels"
  /\ colorStops = <<>>
  /\ Len(sortedStops) = 2
  /\ sortedStops[1].color = Hex(0, 0, 0)

\* C12: for every texel i = 0..width-1, the two stops interpolated between
\* are neighbours in the sorted sequence, stop1.position <= i/(width-1) <=
\* stop2.position, and the interpolation factor used is in [0,1].
C12_Bracketing ==
  texel # NoTexel =>
    /\ texel.n \in 0..(GradientWidth - 1)
    /\ texel.t = Q(texel.n, GradientWidth - 1)
    /\ texel.currentStopIndex \in 1..(Len(sortedStops) - 1)
    /\ texel.stop1 = sortedStops[texel.currentStopIndex]
    /\ texel.stop2 = sortedStops[texel.currentStopIndex + 1]
    /\ texel.stop1.position <= texel.t
    /\ texel.t <= texel.stop2.position
    /\ 0 <= texel.clampedSegmentT /\ texel.clampedSegmentT <= SCALE

C12_Witness ==
  /\ texel # NoTexel
  /\ Len(sortedStops) = 4
  /\ texel.currentStopIndex = 3
  /\ texel.stop1.position < texel.t /\ texel.t < texel.stop2.position
  /\ 0 < texel.clampedSegmentT /\ texel.clampedSegmentT < SCALE

\* C15: generateGradientTextureData leaves the stops array it is given as it
\* was, in length, order and elements, from its call to its return.
C15_StopsNotMutated ==
  [][(hpc = "texels" \/ hpc' = "texels") => colorStops' = colorStops]_vars

\* the call has returned after sorting its copy and inserting both stops
C15_Witness ==
  /\ hpc = "idle"
  /\ ti = GradientWidth
  /\ Len(colorStops) = 2
  /\ colorStops[1].position > colorStops[2].position
  /\ Len(sortedStops) = 4

\* the breathing term as a function of the time and the two speeds alone
BreathingBias(time, speed, pulsingSpeed) ==
  LET phase == Mul(sin(Mul(time, Mul(Mul(Q(261, 1000), speed), pulsingSpeed))) + SCALE,
                   Q(1, 2))
  IN Mul(-Q(17, 100), SCALE - phase) + Mul(-Q(4, 100), phase)

Heights == {400, 600}

\* C14: the bias calc_blur uses is a function of the time, the speed and the
\* pulsing speed alone: every pixel gets the value every other pixel and
\* every other viewport size gets at that time.
C14_BiasUniform ==
  pc = "blur" =>
    /\ blur_in.bias = BreathingBias(un.u_time, un.u_speed, un.u_blurPulsingSpeed)
    /\ \A width \in Widths, height \in Heights :
         blur_in.bias =
           calc_blur_bias(un.u_speed, un.u_blurPulsingSpeed,
                          [un EXCEPT !.u_resolution =
                                       [x |-> width * SCALE, y |-> height * SCALE]])

C14_Witness ==
  /\ pc = "blur"
  /\ fc = Pixel(200, 590)
  /\ un.u_resolution.x = 1000 * SCALE
  /\ un.u_time # 0
  /\ blur_in.bias # BreathingBias(0, un.u_speed, un.u_blurPulsingSpeed)
  /\ blur_in.n1 # 0

\* C13: an evaluation's colour is a function of its pixel, its uniforms and
\* the shader it ran: evaluations with the same inputs return the same
\* colour, whatever was evaluated before them.
C13_PureEvaluation ==
  /\ \A a \in 1..Len(evals), b \in 1..Len(evals) :
       (evals[a].fc = evals[b].fc /\ evals[a].un = evals[b].un
        /\ evals[a].via = evals[b].via) => evals[a].color = evals[b].color
  /\ pc \in {"done", "sampled"} =>
       \A a \in 1..Len(evals) :
         (evals[a].fc = fc /\ evals[a].un = un /\ evals[a].via = pc)
           => evals[a].color = gl_FragColor

\* the same pixel and frame evaluated first and again after another one
C13_Witness ==
  /\ pc = "done"
  /\ Len(evals) = 2
  /\ evals[1].via = "done"
  /\ evals[1].fc = fc /\ evals[1].un = un
  /\ evals[2].fc # fc /\ evals[2].un # un
  /\ evals[2].color # gl_FragColor
  /\ evals[1].color = gl_FragColor

\* C16: after any sequence of colour-stop operations from the default stops
\* the colorStops list handed to useWebGLGradient has at least 2 stops.
C16_AtLeastTwoStops == Len(colorStops) >= 2

\* the ramp generateGradientTextureData interpolates over
Ramp == SortedWithBoundaryStops(colorStops, now)

\* C17 as stated: the positions of the ramp are strictly increasing, no two
\* of its stops share a position.
C17_StrictlyIncreasing ==
  \A k \in 1..(Len(Ramp) - 1) : Ramp[k].position < Ramp[k + 1].position

\* C17, amended: the positions of the ramp never decrease and run from 0 to
\* 1, whatever the order of the colorStops list; two stops can share one.
C17_NonDecreasing ==
  /\ \A k \in 1..(Len(Ramp) - 1) : Ramp[k].position <= Ramp[k + 1].position
  /\ Ramp[1].position = 0
  /\ Ramp[Len(Ramp)].position = SCALE

\* a slider left the list out of order and two stops at one position
C17_Witness ==
  /\ \E k \in 1..(Len(colorStops) - 1) :
       colorStops[k].position > colorStops[k + 1].position
  /\ \E k \in 1..(Len(Ramp) - 1) : Ramp[k].position = Ramp[k + 1].position

\* C18: every frame drawn while the refs are synchronised with the state
\* uses the current parameters as u_speed, u_waveFreq and u_waveAmp.
C18_FrameUsesParameters ==
  \A k \in 1..Len(frames) :
    frames[k].app.synced =>
      /\ frames[k].uniforms.u_speed = frames[k].app.parameters.speed
      /\ frames[k].uniforms.u_waveFreq = frames[k].app.parameters.waveFreqX
      /\ frames[k].uniforms.u_waveAmp = frames[k].app.parameters.waveAmpX

\* C19: from one frame to the next the u_time uploaded never decreases.
C19_TimeNeverDecreases ==
  [][(frames # <<>> /\ frames' # <<>>) =>
       frames'[1].uniforms.u_time >= frames[1].uniforms.u_time]_vars

\* C20: at most one requestAnimationFrame callback is pending, it is the one
\* the live loop requested last, none is pending once the cleanup has run
\* and no new loop has started, and every frame is drawn by the live loop.
C20_OneLiveLoop ==
  /\ Cardinality(rafQueue) <= 1
  /\ \A cb \in rafQueue : glRef = "program" /\ cb.loop = loop /\ cb.id = animationFrameId
  /\ mounted = "gone" => rafQueue = {}
  /\ \A k \in 1..Len(frames) : frames[k].loop = frames[k].live

\* a loop started after a cleanup has drawn a frame from a callback
C20_Witness ==
  /\ loop >= 2
  /\ Cardinality(rafQueue) = 1
  /\ frames # <<>> /\ frames[1].loop = loop /\ frames[1].uniforms.u_time > 0

\* C26: the color of every colour stop is a hex colour string, which
\* hexToRgb parses, whichever operation created or changed the stop.
C26_ColorsAreHex ==
  \A k \in 1..Len(colorStops) : colorStops[k].color.fmt = "hex"

\* C27: the colour stops have pairwise distinct ids.
C27_DistinctIds ==
  \A j, k \in 1..Len(colorStops) : j # k => colorStops[j].id # colorStops[k].id

\* C28: in every state of the parameter store blurSharpnessMin is at most
\* blurSharpnessMax.
C28_SharpnessOrdered == parameters.blurSharpnessMin <= parameters.blurSharpnessMax

InConstraints(p) ==
  \A f \in DOMAIN PARAMETER_CONSTRAINTS :
    PARAMETER_CONSTRAINTS[f].min <= p[f] /\ p[f] <= PARAMETER_CONSTRAINTS[f].max

\* C29: every value randomizeParameters returns is within the min and max
\* of its entry of PARAMETER_CONSTRAINTS.
C29_RandomInConstraints ==
  [][HandleRandomize(Draws) => InConstraints(parameters')]_vars

\* randomize has stored the values drawn with Math.random() just below 1
C29_Witness ==
  /\ parameters = randomizeParameters(Draw(SCALE - 1, SCALE - 1))
  /\ "parameters" \in dirty

\* C30: after resetAllParameters every parameter has its DEFAULT_PARAMETERS
\* value and colorStops is DEFAULT_COLOR_STOPS, whatever happened before.
C30_ResetRestoresDefaults ==
  [][ResetAllParameters =>
       parameters' = DEFAULT_PARAMETERS /\ colorStops' = DEFAULT_COLOR_STOPS]_vars

\* the defaults are back after randomize() wrote the refs and the state
\* changed: no slider position and no draw of the model gives them
C30_Witness ==
  /\ parameters = DEFAULT_PARAMETERS
  /\ colorStops = DEFAULT_COLOR_STOPS
  /\ dirty = {"parameters", "colorStops"}
  /\ parameterRefs # DEFAULT_PARAMETERS

\* C24: when the context is unavailable or a shader or the program cannot
\* be created, compiled or linked, the initialisation starts no render loop
\* and no draw call is issued: a step that ends without the program leaves
\* no callback requested and draws no frame.
C24_FailedInitDrawsNothing ==
  [][glRef' # "program" => (rafQueue' = {} /\ frames' = frames)]_vars

\* a failed first initialisation, and time has passed since
C24_Witness ==
  /\ mounted = "yes" /\ glRef = "gl" /\ loop = 0
  /\ dirty = {} /\ now > PageLoad
  /\ frames = <<>> /\ rafQueue = {}


\* C25: the cleanup releases every WebGL object the initialising effect
\* created, so once the component is unmounted no object the hook created is
\* still allocated.
C25_NothingLeaks == mounted = "gone" => fboHook.alive = {}

\* C21: whatever the interleaving of randomize(), cleanup, re-initialisation
\* and unmount, no texture is bound or written after it was deleted.
C21_OnlyLiveTextures == fboHook.deadTouched = {}

\* C22: once dispose() has returned the renderer makes no WebGL call: no
\* animation frame and no resize notification reaches the context.
C22_SilentAfterDispose == layered.lateCalls = {}

\* C23: at most one render loop is live however many control changes occur,
\* and no loop draws after the cleanup deleted its program.
C23_OneInlineLoop == Cardinality(inline.loops) <= 1 /\ inline.deadDraws = {}

====
